---- MODULE Spec2Model ----
(***************************************************************************)
(* Streaming response renderer of abn_db_genie: the markdown service and   *)
(* its two bounded caches, the block enhancer (wrapCodeBlocks), the reveal *)
(* animator (optimizedTypeWriter) and the stream coordinator               *)
(* (sendUserInput / appendGenieStreamChunk).                               *)
(*                                                                         *)
(* The repository holds several rewritten variants of most components.     *)
(* Each variant is modelled; a variable chosen in Init says which one the  *)
(* page has loaded:                                                        *)
(*   svc  1 = services/markdown-service.js   2 = unnamed/part_001          *)
(*   cbv  1 = components/code-blocks.js      2 = unnamed/part_003          *)
(*        3 = unnamed/part_002                                             *)
(*   twv  1 = typewriter.js, word loop       2 = typewriter.js, char loop  *)
(*   mhv  1 = message-handler.js 135-210     2 = message-handler.js 333-357*)
(*                                                                         *)
(* A text is a sequence of one-character strings.  marked.parse followed   *)
(* by DOMPurify.sanitize is a deterministic total function of the text; it *)
(* is modelled by the tagged value Markup(text).                           *)
(***************************************************************************)
EXTENDS Integers, Sequences, FiniteSets, TLC

VARIABLES
    svc,           \* which MarkdownService source is loaded
    cache,         \* MarkdownService.cache: entries in Map insertion order
    partialCache,  \* MarkdownService.partialCache, same representation
    ret,           \* value returned by the last service call
    parsed,        \* the last service call ran marked.parse
    lastCall,      \* "none" | "full" | "partial": last service call
    lastKey,       \* content passed to the last service call
    load,          \* cache workload: entry point that receives fresh texts
    nextId,        \* cache workload: index of the next fresh text
    ins,           \* insertions into the full cache since it was last empty
    firstIns,      \* first key inserted into the full cache since then
    evicted,       \* keys evicted from the full cache since then, in order
    hitMoved,      \* the last call was a cache hit that changed the key order
    cbv,           \* which wrapCodeBlocks source is loaded
    blocks,        \* enhanced surface: its code blocks in document order
    passes,        \* wrapCodeBlocks passes run on that surface
    afterFirst,    \* the surface as the first pass left it
    twv,           \* which optimizedTypeWriter source is loaded
    mhv,           \* which addGenieResponseWithTypingEffect source is loaded
    surfaces,      \* rendering surfaces (content containers), by creation
    runs,          \* reveal runs (optimizedTypeWriter calls), by creation
    timers,        \* pending setTimeout / import().then callbacks
    nMsgs,         \* assistant messages added by addGenieResponse...
    msgLimit,      \* responses the session's conversation produces
    sends,         \* sendUserInput calls, by start
    faulty,        \* index of the block whose enhancement throws, 0 if none
    dgv,           \* which mermaid helper source is loaded
    lib,           \* window.mermaid is defined
    initialized,   \* mermaidInitialized
    scripts,       \* script elements appended by loadMermaid
    inits,         \* calls of mermaid.initialize
    calls,         \* renderMermaid calls, by start
    detached,      \* surfaces removed from the chat area
    buttons,       \* run buttons of SQL blocks
    detv,          \* which detector source is loaded
    dtext,         \* the text handed to a detector
    dhint,         \* the class name handed to it
    dres,          \* the last detector call and its result
    pf,            \* a streamed message whose text may fail to parse
    atBottom,      \* the chat area is scrolled to within the threshold of its end
    retry,         \* one retryWithBackoff call
    mm,            \* memory manager: the periodic cache cleanup
    tbl            \* one interactive result table

cacheVars == <<svc, cache, partialCache, ret, parsed, lastCall, lastKey>>
loadVars == <<load, nextId, ins, firstIns, evicted, hitMoved>>
enhVars == <<cbv, blocks, passes, afterFirst>>
revealVars == <<twv, mhv, surfaces, runs, timers, nMsgs, msgLimit>>
streamVars == <<sends>>
faultVars == <<faulty>>
diagVars == <<dgv, lib, initialized, scripts, inits, calls>>
chatVars == <<detached>>
runVars == <<buttons>>
detVars == <<detv, dtext, dhint, dres>>
pfVars == <<pf>>
scrollVars == <<atBottom>>
retryVars == <<retry>>
mmVars == <<mm>>
tableVars == <<tbl>>
tailVars == <<mmVars, tableVars>>
lateVars == <<detVars, pfVars, scrollVars, retryVars, tailVars>>
extraVars == <<faultVars, diagVars, chatVars, runVars, lateVars>>

----------------------------------------------------------------------------
(* Bounds and program constants *)

maxCacheSize == 100
SHORT_LIMIT == 20
CHARS_PER_FRAME == 8
BASE_MARKDOWN_INTERVAL == 20
INTERVAL_DIVISOR == 50
MaxExtra == 2
ShortEvery == 4
MaxBlocks == 2
MaxPasses == 3
MaxMsgs == 2
MinMsgs == 1
MaxCancels == 2
MaxSends == 2
MaxRenders == 2
MaxClicks == 2
MaxButtons == 2
MaxRunClicks == 2
MaxPieces == 3
MaxChunks == 3
MaxRetries == 3
MaxStarts == 3
MaxFirings == 2
MaxTexts == 3
MaxRows == 3
NumColumns == 2

NoText == <<"none">>

----------------------------------------------------------------------------
(* Texts *)

Rep(n, ch) == [i \in 1..n |-> ch]

Digit(d) == <<"0", "1", "2", "3", "4", "5", "6", "7", "8", "9">>[d + 1]

RECURSIVE Decimal(_)
Decimal(n) == IF n < 10 THEN <<Digit(n)>>
              ELSE Append(Decimal(n \div 10), Digit(n % 10))

\* The n-th distinct text of the cache workload: its decimal numeral, and for
\* all but every ShortEvery-th text a padding that takes it to the threshold.
TextOf(n) == IF n % ShortEvery = 0 THEN Decimal(n)
             ELSE Rep(SHORT_LIMIT, "x") \o Decimal(n)

MaxId == maxCacheSize + MaxExtra

----------------------------------------------------------------------------
(* Markdown service *)

Markup(content) == [kind |-> "html", src |-> content]

Has(c, k) == \E i \in 1..Len(c) : c[i].key = k

Get(c, k) == c[CHOOSE i \in 1..Len(c) : c[i].key = k].val

Keys(c) == [i \in 1..Len(c) |-> c[i].key]

\* Map.set: a new key goes to the end of the insertion order, an existing
\* key keeps its place and gets the new value.
MapSet(c, k, v) ==
    IF Has(c, k)
    THEN [i \in 1..Len(c) |-> IF c[i].key = k THEN [key |-> k, val |-> v] ELSE c[i]]
    ELSE Append(c, [key |-> k, val |-> v])

\* "Clean cache if too large": delete the first key of the insertion order.
CleanIfTooLarge(c) == IF Len(c) > maxCacheSize THEN Tail(c) ELSE c

\* A faulty processFullMarkdown that never looks the content up.
ProcessFullMarkdownMissAlways(c, content) ==
    [cache |-> MapSet(CleanIfTooLarge(c), content, Markup(content)),
     ret |-> Markup(content), parsed |-> TRUE]

\* processFullMarkdown(content) on a full cache c: the new cache, the
\* returned markup, whether marked.parse ran.
ProcessFullMarkdown(c, content) ==
    IF Has(c, content)
    THEN [cache |-> c, ret |-> Get(c, content), parsed |-> FALSE]
    ELSE LET cleaned == CleanIfTooLarge(c)
             result == Markup(content)
         IN [cache |-> MapSet(cleaned, content, result),
             ret |-> result, parsed |-> TRUE]

\* processPartialMarkdown of services/markdown-service.js.
ProcessPartialMarkdown1(c, p, content) ==
    IF Has(p, content)
    THEN [cache |-> c, partial |-> p, ret |-> Get(p, content), parsed |-> FALSE]
    ELSE LET cleaned == CleanIfTooLarge(p)
             full == ProcessFullMarkdown(c, content)
         IN IF Len(content) < SHORT_LIMIT
            THEN [cache |-> full.cache, partial |-> cleaned,
                  ret |-> full.ret, parsed |-> full.parsed]
            ELSE [cache |-> full.cache,
                  partial |-> MapSet(cleaned, content, full.ret),
                  ret |-> full.ret, parsed |-> full.parsed]

\* processPartialMarkdown of unnamed/part_001: own parse, no eviction.
ProcessPartialMarkdown2(c, p, content) ==
    IF Has(p, content)
    THEN [cache |-> c, partial |-> p, ret |-> Get(p, content), parsed |-> FALSE]
    ELSE [cache |-> c, partial |-> MapSet(p, content, Markup(content)),
          ret |-> Markup(content), parsed |-> TRUE]

ProcessPartialMarkdown(v, c, p, content) ==
    IF v = 1 THEN ProcessPartialMarkdown1(c, p, content)
    ELSE ProcessPartialMarkdown2(c, p, content)

----------------------------------------------------------------------------
(* Cache workload: a caller of the service alone *)

\* Bookkeeping of the full cache since it was last empty.
Track(before, after, wasHit) ==
    /\ ins' = IF Len(after) = 0 THEN 0
              ELSE ins + Cardinality({i \in 1..Len(after) :
                                         ~Has(before, after[i].key)})
    /\ firstIns' = IF Len(before) = 0 /\ Len(after) > 0 THEN after[1].key
                   ELSE IF Len(after) = 0 THEN NoText ELSE firstIns
    /\ evicted' = IF Len(after) = 0 THEN <<>>
                  ELSE evicted \o SelectSeq(Keys(before),
                                            LAMBDA k : ~Has(after, k))
    /\ hitMoved' = (wasHit /\ Keys(after) # Keys(before))

FullInputs ==
    (IF load = "full" /\ nextId <= MaxId THEN {TextOf(nextId)} ELSE {})
    \cup (IF Len(cache) > 0 THEN {cache[1].key, cache[Len(cache)].key} ELSE {})

PartialInputs ==
    (IF load = "partial" /\ nextId <= MaxId THEN {TextOf(nextId)} ELSE {})
    \cup (IF Len(partialCache) > 0
          THEN {partialCache[1].key, partialCache[Len(partialCache)].key}
          ELSE {})

RenderFull ==
    \E t \in FullInputs :
        LET r == ProcessFullMarkdown(cache, t) IN
        /\ cache' = r.cache
        /\ ret' = r.ret
        /\ parsed' = r.parsed
        /\ lastCall' = "full"
        /\ lastKey' = t
        /\ nextId' = IF t = TextOf(nextId) THEN nextId + 1 ELSE nextId
        /\ Track(cache, r.cache, Has(cache, t))
        /\ UNCHANGED <<svc, partialCache, load>>

RenderPartial ==
    \E t \in PartialInputs :
        LET r == ProcessPartialMarkdown(svc, cache, partialCache, t) IN
        /\ cache' = r.cache
        /\ partialCache' = r.partial
        /\ ret' = r.ret
        /\ parsed' = r.parsed
        /\ lastCall' = "partial"
        /\ lastKey' = t
        /\ nextId' = IF t = TextOf(nextId) THEN nextId + 1 ELSE nextId
        /\ Track(cache, r.cache, Has(partialCache, t))
        /\ UNCHANGED <<svc, load>>

InitService ==
    /\ cache = <<>>
    /\ partialCache = <<>>
    /\ ret = Markup(NoText)
    /\ parsed = FALSE
    /\ lastCall = "none"
    /\ lastKey = NoText

InitLoad ==
    /\ nextId = 0
    /\ ins = 0
    /\ firstIns = NoText
    /\ evicted = <<>>
    /\ hitMoved = FALSE

----------------------------------------------------------------------------
(* Block enhancer: wrapCodeBlocks on one surface *)

Kinds == {"sql", "mermaid", "plain"}
Parents == {1, 2}

\* A <pre><code> block of freshly rendered markup: its classification, the
\* node it is a child of, and what the enhancer has attached to it so far.
NewBlock(k, par) ==
    [kind |-> k, parent |-> par,
     hasPre |-> TRUE,      \* a <pre><code> of the block is in the surface
     preWrapped |-> FALSE, \* pre.dataset.wrapped === "true"
     btnBox |-> FALSE,     \* pre holds a .code-block__buttons element
     copy |-> 0, run |-> 0, toggle |-> 0,
     wrap |-> 0,           \* wrapper divs around the block
     diag |-> 0,           \* diagram containers of the block
     styled |-> 0,         \* times STYLES.codeText was appended to the class
     hidden |-> FALSE]     \* pre.style.display = "none"

Surfaces ==
    UNION {[1..n -> {NewBlock(k, par) : k \in Kinds, par \in Parents}]
           : n \in 1..MaxBlocks}

\* components/code-blocks.js: every <pre> with a <code> gets a new wrapper
\* and a new button container on every pass.
WrapBlock1(b) ==
    [b EXCEPT !.wrap = @ + 1,
              !.styled = @ + 1,
              !.copy = @ + 1,
              !.run = @ + (IF b.kind = "sql" THEN 1 ELSE 0),
              !.diag = @ + (IF b.kind = "mermaid" THEN 1 ELSE 0),
              !.hidden = @ \/ b.kind = "mermaid"]

\* unnamed/part_003: skips a <pre> marked data-wrapped, but sets the marker
\* on the wrapper div; the <pre> is replaced by the wrapper, which holds an
\* unmarked clone of it (or, for a diagram, the diagram container only).
WrapBlock2(b) ==
    IF ~b.hasPre \/ b.preWrapped THEN b
    ELSE IF b.kind = "mermaid"
    THEN [b EXCEPT !.wrap = @ + 1, !.copy = @ + 1, !.toggle = @ + 1,
                   !.diag = @ + 1, !.hasPre = FALSE]
    ELSE [b EXCEPT !.wrap = @ + 1, !.copy = @ + 1,
                   !.run = @ + (IF b.kind = "sql" THEN 1 ELSE 0)]

\* unnamed/part_002, addCodeBlockButtons: skipped when the <pre> already
\* holds a button container.
AddCodeBlockButtons(b) ==
    IF b.btnBox THEN b
    ELSE [b EXCEPT !.btnBox = TRUE, !.copy = @ + 1,
                   !.run = @ + (IF b.kind = "sql" THEN 1 ELSE 0)]

\* unnamed/part_002, handleMermaidDiagram on block i of bs: skipped when the
\* parent node of the <pre> already holds a .mermaid-diagram element.
HandleMermaidDiagram(bs, i) ==
    IF \E j \in 1..Len(bs) : bs[j].parent = bs[i].parent /\ bs[j].diag > 0
    THEN bs
    ELSE [bs EXCEPT ![i].diag = @ + 1, ![i].hidden = TRUE]

WrapBlock3(bs, i) ==
    LET withButtons == [bs EXCEPT ![i] = AddCodeBlockButtons(bs[i])]
    IN IF bs[i].kind = "mermaid" THEN HandleMermaidDiagram(withButtons, i)
       ELSE withButtons

RECURSIVE ForEachPre3(_, _)
ForEachPre3(bs, i) ==
    IF i > Len(bs) THEN bs ELSE ForEachPre3(WrapBlock3(bs, i), i + 1)

\* wrapCodeBlocks(textDiv, elements): one pass over the surface.
WrapCodeBlocks(v, bs) ==
    CASE v = 1 -> [i \in 1..Len(bs) |-> WrapBlock1(bs[i])]
      [] v = 2 -> [i \in 1..Len(bs) |-> WrapBlock2(bs[i])]
      [] OTHER -> ForEachPre3(bs, 1)

EnhancePass ==
    /\ passes < MaxPasses
    /\ blocks' = WrapCodeBlocks(cbv, blocks)
    /\ passes' = passes + 1
    /\ afterFirst' = IF passes = 0 THEN blocks' ELSE afterFirst
    /\ UNCHANGED cbv

InitEnhance ==
    /\ cbv \in {1, 2, 3}
    /\ blocks \in Surfaces
    /\ passes = 0
    /\ afterFirst = blocks

----------------------------------------------------------------------------
(* Reveal animator: optimizedTypeWriter *)

IsWs(ch) == ch \in {" ", "\n", "\t"}

\* String.prototype.trim
RECURSIVE TrimStart(_)
TrimStart(t) == IF Len(t) > 0 /\ IsWs(t[1]) THEN TrimStart(Tail(t)) ELSE t

RECURSIVE TrimEnd(_)
TrimEnd(t) == IF Len(t) > 0 /\ IsWs(t[Len(t)])
              THEN TrimEnd(SubSeq(t, 1, Len(t) - 1)) ELSE t

Trim(t) == TrimEnd(TrimStart(t))

\* text.split(" "): the words between single spaces, empty words included.
RECURSIVE SplitSpace(_)
SplitSpace(t) ==
    IF \A k \in 1..Len(t) : t[k] # " " THEN <<t>>
    ELSE LET k == CHOOSE k \in 1..Len(t) :
                      t[k] = " " /\ \A m \in 1..(k - 1) : t[m] # " "
         IN <<SubSeq(t, 1, k - 1)>> \o SplitSpace(SubSeq(t, k + 1, Len(t)))

Max(a, b) == IF a >= b THEN a ELSE b
Min(a, b) == IF a <= b THEN a ELSE b

\* MARKDOWN_PROCESS_INTERVAL: fixed in the word loop, scaled with the text
\* length in the character loop.
MarkdownProcessInterval(v, text) ==
    IF v = 1 THEN BASE_MARKDOWN_INTERVAL
    ELSE Max(BASE_MARKDOWN_INTERVAL, Len(text) \div INTERVAL_DIVISOR)

\* Number of units the loop walks over: words.length or chars.length.
Units(v, text) == IF v = 1 THEN Len(SplitSpace(text)) ELSE Len(text)

\* The typing loop of one animateText call in the word variant: k iterations
\* done, position (i, j) in words, cur the text revealed so far.
RECURSIVE TypeWords(_, _, _, _, _)
TypeWords(words, i, j, cur, k) ==
    IF k >= CHARS_PER_FRAME \/ i >= Len(words) THEN [i |-> i, j |-> j, cur |-> cur]
    ELSE LET w == words[i + 1]
             typed == IF j < Len(w) THEN Append(cur, w[j + 1]) ELSE cur
         IN IF j + 1 = Len(w) + 1
            THEN TypeWords(words, i + 1, 0, Append(typed, " "), k + 1)
            ELSE TypeWords(words, i, j + 1, typed, k + 1)

\* A faulty character loop that drops the first character of every batch.
TypeCharsDropsOne(chars, index, cur) ==
    LET upto == Min(index + CHARS_PER_FRAME, Len(chars))
    IN [i |-> upto, j |-> 0, cur |-> cur \o SubSeq(chars, index + 2, upto)]

\* A faulty character loop that stops one character short of the batch.
TypeCharsShortBatch(chars, index, cur) ==
    LET upto == Min(index + CHARS_PER_FRAME - 1, Len(chars))
    IN [i |-> upto, j |-> 0, cur |-> cur \o SubSeq(chars, index + 1, upto)]

\* The typing loop of one animateText call in the character variant.
TypeChars(chars, index, cur) ==
    LET upto == Min(index + CHARS_PER_FRAME, Len(chars))
    IN [i |-> upto, j |-> 0, cur |-> cur \o SubSeq(chars, index + 1, upto)]

TypeFrame(v, text, i, j, cur) ==
    IF v = 1 THEN TypeWords(SplitSpace(text), i, j, cur, 0)
    ELSE TypeChars(text, i, cur)

\* A rendering surface: element.innerHTML, the data-raw attribute, the
\* number of wrapCodeBlocks passes run on the current innerHTML and the
\* number of wrapCodeBlocks passes queued with requestAnimationFrame.
Empty == [kind |-> "empty", src |-> <<>>]

NewSurface == [html |-> Empty, raw |-> <<>>, passes |-> 0, wrapQueued |-> 0]

\* A faulty start that types every run into the first surface.
NewRunOnFirstSurface(text, s, cb) ==
    [text |-> text, surf |-> 1, cb |-> cb, i |-> 0, j |-> 0, cur |-> <<>>,
     last |-> 0, frame |-> TRUE, listeners |-> TRUE, cancels |-> 0,
     done |-> 0, log |-> <<>>, frameCounter |-> 0,
     isUserScrolling |-> FALSE, scrollTimeout |-> FALSE]

\* The closure of one optimizedTypeWriter(elements, text, element, callback).
NewRun(text, s, cb) ==
    [text |-> text, surf |-> s, cb |-> cb,
     i |-> 0, j |-> 0,      \* position: word and letter, or character index
     cur |-> <<>>,          \* currentText
     last |-> 0,            \* lastProcessedLength
     frame |-> TRUE,        \* the frame animationId names is still pending
     listeners |-> TRUE,    \* wheel and touchmove listeners are registered
     cancels |-> 0,         \* calls of the returned cleanup function
     done |-> 0,            \* calls of callback
     log |-> <<>>,          \* writes to the surface and callback calls
     frameCounter |-> 0,    \* calls of animateText
     isUserScrolling |-> FALSE,
     scrollTimeout |-> FALSE]  \* the 800 ms timer of handleUserScroll is pending

\* A faulty animateText that calls the callback with every render, before
\* the final full render.
AnimateFrameEagerCallback(v, sv, c, p, run) ==
    LET typed == TypeFrame(v, run.text, run.i, run.j, run.cur)
        finished == typed.i >= Units(v, run.text)
        render == (Len(typed.cur) - run.last
                      >= MarkdownProcessInterval(v, run.text)) \/ finished
        part == ProcessPartialMarkdown(sv, c, p, Trim(typed.cur))
        c1 == IF render THEN part.cache ELSE c
        p1 == IF render THEN part.partial ELSE p
        full == ProcessFullMarkdown(c1, run.text)
        called == render /\ run.cb # "none"
    IN [run |-> [run EXCEPT !.i = typed.i, !.j = typed.j, !.cur = typed.cur,
                            !.last = IF render THEN Len(typed.cur) ELSE @,
                            !.frame = ~finished,
                            !.frameCounter = @ + 1,
                            !.done = @ + (IF called THEN 1 ELSE 0),
                            !.log = @ \o (IF render THEN <<"partial">> ELSE <<>>)
                                      \o (IF called THEN <<"done">> ELSE <<>>)
                                      \o (IF finished THEN <<"full">> ELSE <<>>)],
        cache |-> IF finished THEN full.cache ELSE c1,
        partial |-> p1,
        wrote |-> render,
        html |-> IF finished THEN full.ret ELSE part.ret,
        parsed |-> IF finished THEN full.parsed ELSE part.parsed,
        finished |-> finished,
        called |-> called,
        scrolled |-> ~run.isUserScrolling]

\* A faulty animateText whose final render takes the trimmed revealed text
\* instead of the input text.
AnimateFrameTrimmedFinal(v, sv, c, p, run) ==
    LET typed == TypeFrame(v, run.text, run.i, run.j, run.cur)
        finished == typed.i >= Units(v, run.text)
        render == (Len(typed.cur) - run.last
                      >= MarkdownProcessInterval(v, run.text)) \/ finished
        part == ProcessPartialMarkdown(sv, c, p, Trim(typed.cur))
        c1 == IF render THEN part.cache ELSE c
        p1 == IF render THEN part.partial ELSE p
        full == ProcessFullMarkdown(c1, Trim(typed.cur))
        called == finished /\ run.cb # "none"
    IN [run |-> [run EXCEPT !.i = typed.i, !.j = typed.j, !.cur = typed.cur,
                            !.last = IF render THEN Len(typed.cur) ELSE @,
                            !.frame = ~finished,
                            !.frameCounter = @ + 1,
                            !.done = @ + (IF called THEN 1 ELSE 0),
                            !.log = @ \o (IF render THEN <<"partial">> ELSE <<>>)
                                      \o (IF finished THEN <<"full">> ELSE <<>>)
                                      \o (IF called THEN <<"done">> ELSE <<>>)],
        cache |-> IF finished THEN full.cache ELSE c1,
        partial |-> p1,
        wrote |-> render,
        html |-> IF finished THEN full.ret ELSE part.ret,
        parsed |-> IF finished THEN full.parsed ELSE part.parsed,
        finished |-> finished,
        called |-> called,
        scrolled |-> ~run.isUserScrolling]

\* A faulty animateText that renders the revealed text on every call.
AnimateFrameEveryTick(v, sv, c, p, run) ==
    LET typed == TypeFrame(v, run.text, run.i, run.j, run.cur)
        finished == typed.i >= Units(v, run.text)
        render == TRUE
        part == ProcessPartialMarkdown(sv, c, p, Trim(typed.cur))
        c1 == IF render THEN part.cache ELSE c
        p1 == IF render THEN part.partial ELSE p
        full == ProcessFullMarkdown(c1, run.text)
        called == finished /\ run.cb # "none"
    IN [run |-> [run EXCEPT !.i = typed.i, !.j = typed.j, !.cur = typed.cur,
                            !.last = IF render THEN Len(typed.cur) ELSE @,
                            !.frame = ~finished,
                            !.frameCounter = @ + 1,
                            !.done = @ + (IF called THEN 1 ELSE 0),
                            !.log = @ \o (IF render THEN <<"partial">> ELSE <<>>)
                                      \o (IF finished THEN <<"full">> ELSE <<>>)
                                      \o (IF called THEN <<"done">> ELSE <<>>)],
        cache |-> IF finished THEN full.cache ELSE c1,
        partial |-> p1,
        wrote |-> render,
        html |-> IF finished THEN full.ret ELSE part.ret,
        parsed |-> IF finished THEN full.parsed ELSE part.parsed,
        finished |-> finished,
        called |-> called,
        scrolled |-> ~run.isUserScrolling]

\* One animateText call of run on the service state (c, p): the typing loop,
\* the interval-driven partial render, and at the end the final full render
\* followed by the callback.
AnimateFrame(v, sv, c, p, run) ==
    LET typed == TypeFrame(v, run.text, run.i, run.j, run.cur)
        finished == typed.i >= Units(v, run.text)
        render == (Len(typed.cur) - run.last
                      >= MarkdownProcessInterval(v, run.text)) \/ finished
        part == ProcessPartialMarkdown(sv, c, p, Trim(typed.cur))
        c1 == IF render THEN part.cache ELSE c
        p1 == IF render THEN part.partial ELSE p
        full == ProcessFullMarkdown(c1, run.text)
        called == finished /\ run.cb # "none"
    IN [run |-> [run EXCEPT !.i = typed.i, !.j = typed.j, !.cur = typed.cur,
                            !.last = IF render THEN Len(typed.cur) ELSE @,
                            !.frame = ~finished,
                            !.frameCounter = @ + 1,
                            !.done = @ + (IF called THEN 1 ELSE 0),
                            !.log = @ \o (IF render THEN <<"partial">> ELSE <<>>)
                                      \o (IF finished THEN <<"full">> ELSE <<>>)
                                      \o (IF called THEN <<"done">> ELSE <<>>)],
        cache |-> IF finished THEN full.cache ELSE c1,
        partial |-> p1,
        wrote |-> render,
        html |-> IF finished THEN full.ret ELSE part.ret,
        parsed |-> IF finished THEN full.parsed ELSE part.parsed,
        finished |-> finished,
        called |-> called,
        scrolled |-> ~run.isUserScrolling]

\* A faulty cleanup that leaves the pending frame in place.
CleanupKeepsFrame(run) ==
    [run EXCEPT !.listeners = FALSE, !.cancels = @ + 1]

\* The cleanup function optimizedTypeWriter returns.
Cleanup(run) ==
    [run EXCEPT !.frame = FALSE, !.listeners = FALSE, !.cancels = @ + 1]

----------------------------------------------------------------------------
(* Message handler: addGenieResponseWithTypingEffect *)

\* Response texts.  "#" stands for one complete fenced diagram block
\* (```mermaid graph ... ```), the match of mermaidRegex.
TEmpty == <<>>
TSpaced == <<" ", "a", " ", "b">>
TLong == Rep(9, "a") \o <<" ">> \o Rep(9, "b") \o <<" ">> \o Rep(5, "c")
TDiagram == <<"a", "#", "b">>
TDiagramOnly == <<"#">>

Texts == {TEmpty, TSpaced, TLong, TDiagram, TDiagramOnly}

HasDiagram(text) == \E k \in 1..Len(text) : text[k] = "#"

\* extractMermaidAndRest(text): the trimmed text before the first diagram
\* block and the trimmed text after it.
ExtractMermaidAndRest(text) ==
    LET k == CHOOSE k \in 1..Len(text) :
                 text[k] = "#" /\ \A m \in 1..(k - 1) : text[m] # "#"
    IN [beforeText |-> Trim(SubSeq(text, 1, k - 1)),
        rest |-> Trim(SubSeq(text, k + 1, Len(text)))]

Timer(kind, s, text) == [kind |-> kind, surf |-> s, text |-> text]

\* markdownService.clearPartialCache()
ClearPartialCache(p) == <<>>

\* addGenieResponseWithTypingEffect(elements, responseText): addMessage adds
\* the empty bubble, setTimeout(..., 1000) defers the typing.
AddGenieResponseWithTypingEffect(text) ==
    /\ nMsgs' = nMsgs + 1
    /\ surfaces' = Append(surfaces, NewSurface)
    /\ timers' = timers \cup {Timer("type", Len(surfaces) + 1, text)}
    /\ atBottom' = TRUE

\* handleAIResponse: the server's answer arrives.
AddGenieResponse(text) ==
    /\ nMsgs < msgLimit
    /\ AddGenieResponseWithTypingEffect(text)
    /\ UNCHANGED <<msgLimit, twv, mhv, runs, cacheVars>>

\* The 1000 ms timeout fires.  message-handler.js 143-209 splits a response
\* with a diagram into up to two runs on containers of their own; otherwise,
\* and always in 341-356, one run types the response into the bubble.
StartTyping(tm) ==
    /\ tm \in timers
    /\ tm.kind = "type"
    /\ IF mhv = 1 /\ HasDiagram(tm.text)
       THEN LET parts == ExtractMermaidAndRest(tm.text) IN
            /\ IF parts.beforeText # <<>>
               THEN /\ surfaces' = Append(surfaces, NewSurface)
                    /\ runs' = Append(runs, NewRun(parts.beforeText,
                                                   Len(surfaces) + 1, "none"))
               ELSE UNCHANGED <<surfaces, runs>>
            /\ timers' = (timers \ {tm})
                            \cup {Timer("import", tm.surf, parts.rest)}
       ELSE /\ runs' = Append(runs, NewRun(tm.text, tm.surf,
                                  IF mhv = 1 THEN "wrapNow" ELSE "wrapLater"))
            /\ timers' = timers \ {tm}
            /\ UNCHANGED surfaces
    /\ UNCHANGED <<msgLimit, twv, mhv, nMsgs, cacheVars>>

\* import("./code-blocks.js").then(...): the diagram gets a container of its
\* own and one wrapCodeBlocks pass; the text after it is typed 800 ms later.
ImportThen(tm) ==
    /\ tm \in timers
    /\ tm.kind = "import"
    /\ surfaces' = Append(surfaces, [html |-> [kind |-> "diagram", src |-> <<"#">>],
                                     raw |-> <<>>, passes |-> 1, wrapQueued |-> 0])
    /\ timers' = (timers \ {tm})
                    \cup {Timer(IF tm.text # <<>> THEN "after" ELSE "clear",
                                tm.surf, tm.text)}
    /\ UNCHANGED <<msgLimit, twv, mhv, runs, nMsgs, cacheVars>>

AfterDiagram(tm) ==
    /\ tm \in timers
    /\ tm.kind = "after"
    /\ surfaces' = Append(surfaces, NewSurface)
    /\ runs' = Append(runs, NewRun(tm.text, Len(surfaces) + 1, "clearOnly"))
    /\ timers' = timers \ {tm}
    /\ UNCHANGED <<msgLimit, twv, mhv, nMsgs, cacheVars>>

ClearAfterDiagram(tm) ==
    /\ tm \in timers
    /\ tm.kind = "clear"
    /\ partialCache' = ClearPartialCache(partialCache)
    /\ timers' = timers \ {tm}
    /\ atBottom' = TRUE
    /\ UNCHANGED <<msgLimit, twv, mhv, surfaces, runs, nMsgs,
                   svc, cache, ret, parsed, lastCall, lastKey>>

\* setTimeout(() => wrapCodeBlocks(contentWrapper, elements), 100)
WrapLater(tm) ==
    /\ tm \in timers
    /\ tm.kind = "wrap"
    /\ surfaces' = [surfaces EXCEPT ![tm.surf].passes = @ + 1]
    /\ timers' = timers \ {tm}
    /\ atBottom' = TRUE
    /\ UNCHANGED <<msgLimit, twv, mhv, runs, nMsgs, cacheVars>>

\* A frame callback of run r: animateText, and with it the callback the
\* message handler passed.
AnimateText(r) ==
    /\ runs[r].frame
    /\ \E f \in {AnimateFrame(twv, svc, cache, partialCache, runs[r])} :
       LET s == runs[r].surf
           cb == runs[r].cb
       IN /\ runs' = [runs EXCEPT ![r] = f.run]
          /\ cache' = f.cache
          /\ partialCache' = IF f.called THEN ClearPartialCache(f.partial)
                             ELSE f.partial
          /\ surfaces' =
                IF ~f.wrote THEN surfaces
                ELSE [surfaces EXCEPT ![s].html = f.html,
                         ![s].passes = IF f.called /\ cb = "wrapNow" THEN 1 ELSE 0]
          /\ timers' = IF f.called /\ cb = "wrapLater"
                       THEN timers \cup {Timer("wrap", s, <<>>)}
                       ELSE timers
          /\ ret' = IF f.wrote THEN f.html ELSE ret
          /\ parsed' = IF f.wrote THEN f.parsed ELSE parsed
          /\ lastCall' = IF f.finished THEN "full"
                         ELSE IF f.wrote THEN "partial" ELSE lastCall
          /\ lastKey' = IF f.finished THEN runs[r].text
                        ELSE IF f.wrote THEN Trim(f.run.cur) ELSE lastKey
          /\ atBottom' \in
                IF f.scrolled \/ (f.called /\ cb \in {"wrapNow", "clearOnly"})
                THEN {TRUE}
                ELSE IF f.wrote THEN {atBottom, FALSE} ELSE {atBottom}
    /\ UNCHANGED <<msgLimit, twv, mhv, nMsgs, svc>>

RECURSIVE CancelCalls(_)
CancelCalls(rs) ==
    IF rs = <<>> THEN 0 ELSE Head(rs).cancels + CancelCalls(Tail(rs))

\* The holder of the handle calls the cleanup function.
CancelRun(r) ==
    /\ CancelCalls(runs) < MaxCancels
    /\ runs' = [runs EXCEPT ![r] = Cleanup(@)]
    /\ UNCHANGED <<msgLimit, twv, mhv, surfaces, timers, nMsgs, cacheVars>>

InitRevealVars ==
    /\ surfaces = <<>>
    /\ runs = <<>>
    /\ timers = {}
    /\ nMsgs = 0
    /\ sends = <<>>

IdleReveal ==
    /\ twv = 1
    /\ mhv = 1
    /\ msgLimit = 0
    /\ InitRevealVars

----------------------------------------------------------------------------
(* Stream coordinator: sendUserInput and appendGenieStreamChunk *)

Prompts == {<<"q">>}

\* errorMessages.default of handleError; only its being plain text matters.
Friendly == <<"s", "o", "r", "r", "y">>

\* handleError's table of friendly texts, each shortened to a few letters.
ErrorMessages ==
    [k \in {"404", "500", "timeout", "default"} |->
        CASE k = "404" -> <<"n", "f">>
          [] k = "500" -> <<"i", "s", "e">>
          [] k = "timeout" -> <<"t", "o">>
          [] OTHER -> Friendly]

\* The message sendUserInput's catch block builds from the exception.
NetworkError == "Network error: TypeError"

\* A faulty handleError that shows the message it was given.
HandleErrorRaw(code) == <<code>>

\* handleError: errorMessages[code] || errorMessages.default
HandleError(code) ==
    IF code \in DOMAIN ErrorMessages THEN ErrorMessages[code]
    ELSE ErrorMessages["default"]

\* Response bodies as the network delivers them: sequences of byte chunks.
\* "H" "L" are the two bytes of one two-byte character, decoded as "E";
\* "$" stands for one complete fenced SQL code block.
LongChunk == Rep(SHORT_LIMIT, "c")

Bodies ==
    { <<>>,
      << <<"a", "H">>, <<"L", "c">> >>,
      << <<"a">>, <<"$">>, LongChunk >> }

\* decoder.decode(value, {stream: true}): an incomplete character at the
\* end of a chunk is held back for the next call; malformed input decodes
\* to the replacement character "?".
RECURSIVE Decode(_, _, _)
Decode(pend, bytes, out) ==
    IF bytes = <<>> THEN [out |-> out, pend |-> pend]
    ELSE LET b == Head(bytes) IN
         IF pend
         THEN IF b = "L" THEN Decode(FALSE, Tail(bytes), Append(out, "E"))
              ELSE Decode(FALSE, bytes, Append(out, "?"))
         ELSE IF b = "H" THEN Decode(TRUE, Tail(bytes), out)
         ELSE IF b = "L" THEN Decode(FALSE, Tail(bytes), Append(out, "?"))
         ELSE Decode(FALSE, Tail(bytes), Append(out, b))

NewSend ==
    [pc |-> "fetch",     \* fetch, read, done, failed
     body |-> <<>>,      \* byte chunks the reader has not delivered yet
     pend |-> FALSE,     \* the decoder holds the first byte of a character
     chunks |-> <<>>,    \* the decoded chunks handled so far, in order
     full |-> <<>>,      \* fullResponse
     msg |-> 0]          \* surface of genieMessageElements, 0 while null

\* A faulty buffer update that puts the new chunk first.
AppendChunkInFront(prevRaw, chunk) == chunk \o prevRaw

\* newRaw = prevRaw + chunk
AppendChunk(prevRaw, chunk) == prevRaw \o chunk

\* sendUserInput up to the await of fetch: the user bubble is rendered in
\* full and its wrapCodeBlocks pass is queued for the next frame.
SendUserInput(prompt) ==
    /\ Len(sends) < MaxSends
    /\ LET full == ProcessFullMarkdown(cache, prompt) IN
       /\ surfaces' = Append(surfaces, [html |-> full.ret, raw |-> <<>>,
                                        passes |-> 0, wrapQueued |-> 1])
       /\ cache' = full.cache
       /\ ret' = full.ret
       /\ parsed' = full.parsed
    /\ lastCall' = "full"
    /\ lastKey' = prompt
    /\ sends' = Append(sends, NewSend)
    /\ UNCHANGED <<svc, partialCache, twv, mhv, runs, timers, nMsgs, msgLimit>>

\* fetch resolves with resp.ok: the read loop starts.
FetchOk(i, body) ==
    /\ sends[i].pc = "fetch"
    /\ sends' = [sends EXCEPT ![i].pc = "read", ![i].body = body]
    /\ UNCHANGED <<cacheVars, revealVars>>

\* fetch rejects, resp.ok is false or reader.read() rejects: the catch
\* block hands a friendly text to addGenieResponseWithTypingEffect.
StreamError(i) ==
    /\ sends[i].pc \in {"fetch", "read"}
    /\ sends' = [sends EXCEPT ![i].pc = "failed"]
    /\ AddGenieResponseWithTypingEffect(HandleError(NetworkError))
    /\ UNCHANGED <<cacheVars, twv, mhv, runs, msgLimit>>

\* reader.read() delivers a chunk: fullResponse grows, the assistant bubble
\* is created on the first chunk, and appendGenieStreamChunk re-renders the
\* whole buffer and queues a wrapCodeBlocks pass.
ReadChunk(i) ==
    /\ sends[i].pc = "read"
    /\ sends[i].body # <<>>
    /\ LET dec == Decode(sends[i].pend, Head(sends[i].body), <<>>)
           chunk == dec.out
           m == IF sends[i].msg = 0 THEN Len(surfaces) + 1 ELSE sends[i].msg
           base == IF sends[i].msg = 0 THEN Append(surfaces, NewSurface)
                   ELSE surfaces
           newRaw == AppendChunk(base[m].raw, chunk)
       IN \E part \in {ProcessPartialMarkdown(svc, cache, partialCache, newRaw)} :
          /\ surfaces' = [base EXCEPT ![m] =
                             [html |-> part.ret, raw |-> newRaw, passes |-> 0,
                              wrapQueued |-> @.wrapQueued + 1]]
          /\ sends' = [sends EXCEPT ![i] =
                          [@ EXCEPT !.body = Tail(@), !.pend = dec.pend,
                                    !.chunks = Append(@, chunk),
                                    !.full = @ \o chunk, !.msg = m]]
          /\ cache' = part.cache
          /\ partialCache' = part.partial
          /\ ret' = part.ret
          /\ parsed' = part.parsed
          /\ lastCall' = "partial"
          /\ lastKey' = newRaw
    /\ UNCHANGED <<svc, twv, mhv, runs, timers, nMsgs, msgLimit>>

\* reader.read() reports done: one full render of fullResponse and one
\* wrapCodeBlocks pass, if any chunk created the bubble.
ReadDone(i) ==
    /\ sends[i].pc = "read"
    /\ sends[i].body = <<>>
    /\ sends' = [sends EXCEPT ![i].pc = "done"]
    /\ IF sends[i].msg # 0
       THEN LET full == ProcessFullMarkdown(cache, sends[i].full) IN
            /\ surfaces' = [surfaces EXCEPT ![sends[i].msg].html = full.ret,
                                            ![sends[i].msg].passes = 1]
            /\ cache' = full.cache
            /\ ret' = full.ret
            /\ parsed' = full.parsed
            /\ lastCall' = "full"
            /\ lastKey' = sends[i].full
       ELSE UNCHANGED <<surfaces, cache, ret, parsed, lastCall, lastKey>>
    /\ UNCHANGED <<svc, partialCache, twv, mhv, runs, timers, nMsgs, msgLimit>>

\* The next animation frame runs every wrapCodeBlocks pass queued with
\* requestAnimationFrame.
WrapFrame ==
    /\ \E s \in 1..Len(surfaces) : surfaces[s].wrapQueued > 0
    /\ surfaces' = [s \in 1..Len(surfaces) |->
                       [surfaces[s] EXCEPT !.wrapQueued = 0,
                                           !.passes = @ + surfaces[s].wrapQueued]]
    /\ UNCHANGED <<cacheVars, twv, mhv, runs, timers, nMsgs, msgLimit, sends>>

----------------------------------------------------------------------------
(* Block enhancer with a block whose enhancement throws *)

RECURSIVE ForEachPreUpTo3(_, _, _)
ForEachPreUpTo3(bs, i, f) ==
    IF i > Len(bs) \/ i >= f THEN bs
    ELSE ForEachPreUpTo3(WrapBlock3(bs, i), i + 1, f)

\* wrapCodeBlocks when the callback of querySelectorAll("pre").forEach throws
\* on entering block f: the exception leaves forEach, so the blocks before f
\* are done and block f and the blocks after it are not visited.
WrapCodeBlocksThrowingAt(v, bs, f) ==
    CASE v = 1 -> [i \in 1..Len(bs) |-> IF i < f THEN WrapBlock1(bs[i]) ELSE bs[i]]
      [] v = 2 -> [i \in 1..Len(bs) |-> IF i < f THEN WrapBlock2(bs[i]) ELSE bs[i]]
      [] OTHER -> ForEachPreUpTo3(bs, 1, f)

\* One pass over a surface one of whose blocks makes the enhancer throw; the
\* caller (message-handler.js 315-319) catches the exception of the pass.
EnhancePassThrowing ==
    /\ faulty # 0
    /\ passes < MaxPasses
    /\ blocks' = WrapCodeBlocksThrowingAt(cbv, blocks, faulty)
    /\ passes' = passes + 1
    /\ afterFirst' = IF passes = 0 THEN blocks' ELSE afterFirst
    /\ UNCHANGED <<cbv, faulty>>

IdleFault == faulty = 0

----------------------------------------------------------------------------
(* Diagram renderer: loadMermaid and renderMermaid, called by
   handleMermaidDiagram *)

\* Diagram sources: one that parses and renders, one mermaid.parse rejects,
\* one that parses but whose rendering promise rejects.
Codes == {"ok", "badSyntax", "badRender"}

\* The diagram branch of wrapCodeBlocks up to the call of renderMermaid.
\* unnamed/part_003 (c = 2) replaces the <pre> by a wrapper holding a
\* container with a spinner and a toggle button, and calls renderMermaid from
\* a timer; the other two sources hide the <pre>, create an empty container
\* and call renderMermaid at once.
NewCall(c, code) ==
    [code |-> code,
     pc |-> "start",         \* start, load, failed, timer, rendering, done
     container |-> IF c = 2 THEN "spinner" ELSE "empty",
                             \* or div (the unrendered div), svg, errorPanel
     preHidden |-> c # 2,    \* pre.style.display = "none"
     parses |-> 0,           \* calls of mermaid.parse
     renders |-> 0,          \* calls of mermaid.init
     successes |-> 0,        \* calls of onSuccess
     errors |-> 0,           \* calls of onError
     threw |-> 0,            \* calls of onSuccess that threw
     isRendered |-> TRUE,    \* the toggle's flag
     shown |-> "diagram",    \* the wrapper's child: diagram or code
     swaps |-> <<>>,         \* pending 300 ms timers of the toggle
     clicks |-> 0]

\* The success callback the enhancer passes to renderMermaid.
OnSuccess(c, call) ==
    [call EXCEPT !.successes = @ + 1,
                 !.isRendered = IF c = 2 THEN TRUE ELSE @]

\* The error callback: unnamed/part_003 writes an error panel with the raw
\* source into the container, the other two show the <pre> again.
OnError(c, call) ==
    IF c = 2
    THEN [call EXCEPT !.errors = @ + 1, !.container = "errorPanel",
                      !.isRendered = FALSE]
    ELSE [call EXCEPT !.errors = @ + 1, !.preHidden = FALSE]

\* The callback renderMermaid hands to loadMermaid, from the try on:
\* mermaid.parse throws and onError is called, or the container is emptied,
\* gets the div, and the rendering is started (from a 50 ms timer in
\* unnamed/part_006).
RenderBody(v, c, call) ==
    LET p == [call EXCEPT !.parses = @ + 1]
    IN IF call.code = "badSyntax"
       THEN OnError(c, [p EXCEPT !.pc = "done"])
       ELSE IF v = 1
            THEN [p EXCEPT !.container = "div", !.pc = "rendering",
                           !.renders = @ + 1]
            ELSE [p EXCEPT !.container = "div", !.pc = "timer"]

\* initializeMermaid, and the unconditional mermaid.initialize at the start
\* of the callback in components/mermaid-helper.js.
InitializeCount(v, isInit, n) ==
    IF v = 1 THEN n + 1 ELSE IF isInit THEN n ELSE n + 1

\* renderMermaid for call k of cs, up to the return of loadMermaid: the
\* callback runs at once if the library is there, otherwise a script element
\* is appended.
RenderMermaid(cs, k) ==
    IF lib
    THEN /\ calls' = [cs EXCEPT ![k] = RenderBody(dgv, cbv, @)]
         /\ inits' = InitializeCount(dgv, initialized, inits)
         /\ initialized' = (dgv = 2 \/ initialized)
         /\ UNCHANGED scripts
    ELSE /\ calls' = [cs EXCEPT ![k].pc = "load"]
         /\ scripts' = scripts + 1
         /\ UNCHANGED <<inits, initialized>>

\* wrapCodeBlocks meets a mermaid block.
DiagramBlock(code) ==
    /\ Len(calls) < MaxRenders
    /\ IF cbv = 2
       THEN /\ calls' = Append(calls, NewCall(cbv, code))
            /\ UNCHANGED <<scripts, inits, initialized>>
       ELSE RenderMermaid(Append(calls, NewCall(cbv, code)), Len(calls) + 1)
    /\ UNCHANGED <<dgv, lib>>

\* The setTimeout(..., 0) of unnamed/part_003 fires and calls renderMermaid.
RenderStart(k) ==
    /\ calls[k].pc = "start"
    /\ RenderMermaid(calls, k)
    /\ UNCHANGED <<dgv, lib>>

\* script.onload of the script call k appended.
ScriptLoaded(k) ==
    /\ calls[k].pc = "load"
    /\ lib' = TRUE
    /\ calls' = [calls EXCEPT ![k] = RenderBody(dgv, cbv, @)]
    /\ inits' = InitializeCount(dgv, initialized, inits)
    /\ initialized' = (dgv = 2 \/ initialized)
    /\ UNCHANGED <<dgv, scripts>>

\* setTimeout(..., 50) of unnamed/part_006 fires: mermaid.init is called.
RenderTimer(k) ==
    /\ calls[k].pc = "timer"
    /\ calls' = [calls EXCEPT ![k].pc = "rendering", ![k].renders = @ + 1]
    /\ UNCHANGED <<dgv, lib, initialized, scripts, inits>>

\* The then handler of mermaid.init's promise calls onSuccess; an exception
\* onSuccess throws rejects the promise then returns, and the catch handler
\* chained to it calls onError.
ThenCatch(c, call, throws) ==
    IF throws
    THEN OnError(c, [OnSuccess(c, call) EXCEPT !.threw = @ + 1])
    ELSE OnSuccess(c, call)

\* The script element of call k fails to load: no handler is registered for
\* that, so the callback handed to loadMermaid is never called.
ScriptFails(k) ==
    /\ calls[k].pc = "load"
    /\ calls' = [calls EXCEPT ![k].pc = "failed"]
    /\ UNCHANGED <<dgv, lib, initialized, scripts, inits>>

\* The promise of mermaid.init settles: then -> onSuccess, catch -> onError.
RenderSettled(k) ==
    /\ calls[k].pc = "rendering"
    /\ \E throws \in BOOLEAN :
          calls' = [calls EXCEPT ![k] =
                       IF @.code = "ok"
                       THEN ThenCatch(cbv, [@ EXCEPT !.pc = "done",
                                                     !.container = "svg"], throws)
                       ELSE OnError(cbv, [@ EXCEPT !.pc = "done"])]
    /\ UNCHANGED <<dgv, lib, initialized, scripts, inits>>

\* A faulty toggle that renders the diagram again when switching back to it.
ToggleRerenders(call) ==
    IF call.isRendered
    THEN [call EXCEPT !.swaps = Append(@, "code"), !.isRendered = FALSE,
                      !.clicks = @ + 1]
    ELSE [call EXCEPT !.swaps = Append(@, "diagram"), !.isRendered = TRUE,
                      !.clicks = @ + 1, !.pc = "rendering",
                      !.parses = @ + 1, !.renders = @ + 1]

\* The click handler of the toggle button of unnamed/part_003: flips
\* isRendered and schedules the swap of the wrapper's child 300 ms later.
Toggle(call) ==
    IF call.isRendered
    THEN [call EXCEPT !.swaps = Append(@, "code"), !.isRendered = FALSE,
                      !.clicks = @ + 1]
    ELSE [call EXCEPT !.swaps = Append(@, "diagram"), !.isRendered = TRUE,
                      !.clicks = @ + 1]

ToggleClick(k) ==
    /\ cbv = 2
    /\ calls[k].clicks < MaxClicks
    /\ calls' = [calls EXCEPT ![k] = Toggle(@)]
    /\ UNCHANGED <<dgv, lib, initialized, scripts, inits>>

\* The 300 ms timer of a click: wrapper.replaceChild(new, old), which throws
\* and changes nothing when old is not the wrapper's child.
SwapTimer(k) ==
    /\ calls[k].swaps # <<>>
    /\ LET to == Head(calls[k].swaps)
       IN calls' = [calls EXCEPT ![k].swaps = Tail(@),
                                 ![k].shown = IF @ # to THEN to ELSE @]
    /\ UNCHANGED <<dgv, lib, initialized, scripts, inits>>

InitDiagram ==
    /\ dgv \in {1, 2}
    /\ lib \in BOOLEAN
    /\ initialized = FALSE
    /\ scripts = 0
    /\ inits = 0
    /\ calls = <<>>

IdleDiagram ==
    /\ dgv = 1
    /\ lib = FALSE
    /\ initialized = FALSE
    /\ scripts = 0
    /\ inits = 0
    /\ calls = <<>>

----------------------------------------------------------------------------
(* Superseding the messages on the page *)

\* The click handler of newConversationBtn once /new_conversation has
\* answered: elements.chat.innerHTML = "" removes every message from the
\* page. Runs, timers and listeners are not touched. loadConversation
\* clears the chat area with the same assignment. Clearing an empty chat
\* area changes nothing.
NewConversation ==
    /\ detached # 1..Len(surfaces)
    /\ detached' = 1..Len(surfaces)

IdleChat == detached = {}

----------------------------------------------------------------------------
(* Run button of an SQL block *)

\* How executeSqlString can end: results shown, an error reported to the
\* user, or an exception leaving it.
Outcomes == {"success", "failure", "thrown"}

\* The button as createRunButton returns it.
CreateRunButton ==
    [html |-> "play",       \* play icon or spinner
     disabled |-> FALSE,
     execs |-> <<>>,        \* executions in flight: the html saved at the click
     started |-> 0,         \* clicks handled
     log |-> <<>>]          \* outcomes of the finished executions

\* The click handler up to the await: unnamed/part_003 (c = 2) saves the
\* html, disables the button and shows the spinner; unnamed/part_002 (c = 3)
\* shows the spinner; components/code-blocks.js only calls executeSqlString.
RunClick(c, b) ==
    [b EXCEPT !.execs = Append(@, b.html), !.started = @ + 1,
              !.disabled = IF c = 2 THEN TRUE ELSE @,
              !.html = IF c = 1 THEN @ ELSE "spinner"]

\* The handler after the await of execution j, which ended with outcome o:
\* the finally block restores the button.
RunFinally(c, b, j, o) ==
    LET rest == [b EXCEPT !.execs = SubSeq(@, 1, j - 1) \o SubSeq(@, j + 1, Len(@)),
                          !.log = Append(@, o)]
    IN IF c = 1 THEN rest
       ELSE IF c = 2 THEN [rest EXCEPT !.html = b.execs[j], !.disabled = FALSE]
       ELSE [rest EXCEPT !.html = "play"]

\* wrapCodeBlocks adds a run button to an SQL block.
AddRunButton ==
    /\ Len(buttons) < MaxButtons
    /\ buttons' = Append(buttons, CreateRunButton)
    /\ UNCHANGED cbv

\* A click on button n; a disabled button receives none.
ClickRun(n) ==
    /\ ~buttons[n].disabled
    /\ buttons[n].started < MaxRunClicks
    /\ buttons' = [buttons EXCEPT ![n] = RunClick(cbv, @)]
    /\ UNCHANGED cbv

\* The promise of executeSqlString settles.
ExecutionEnds(n, j, o) ==
    /\ j \in 1..Len(buttons[n].execs)
    /\ buttons' = [buttons EXCEPT ![n] = RunFinally(cbv, @, j, o)]
    /\ UNCHANGED cbv

IdleRun == buttons = <<>>

----------------------------------------------------------------------------
(* Content detectors *)

Lowers == <<"a", "b", "c", "d", "e", "f", "g", "h", "i", "j", "k", "l", "m",
            "n", "o", "p", "q", "r", "s", "t", "u", "v", "w", "x", "y", "z">>
Uppers == <<"A", "B", "C", "D", "E", "F", "G", "H", "I", "J", "K", "L", "M",
            "N", "O", "P", "Q", "R", "S", "T", "U", "V", "W", "X", "Y", "Z">>

\* String.prototype.toUpperCase and toLowerCase
ToUpperCase(t) ==
    [i \in 1..Len(t) |->
        IF \E k \in 1..26 : Lowers[k] = t[i]
        THEN Uppers[CHOOSE k \in 1..26 : Lowers[k] = t[i]] ELSE t[i]]

ToLowerCase(t) ==
    [i \in 1..Len(t) |->
        IF \E k \in 1..26 : Uppers[k] = t[i]
        THEN Lowers[CHOOSE k \in 1..26 : Uppers[k] = t[i]] ELSE t[i]]

\* String.prototype.startsWith, endsWith and includes
StartsWith(t, p) == Len(p) <= Len(t) /\ SubSeq(t, 1, Len(p)) = p
EndsWith(t, p) == Len(p) <= Len(t) /\ SubSeq(t, Len(t) - Len(p) + 1, Len(t)) = p
Includes(t, p) ==
    \E k \in 0..(Len(t) - Len(p)) : SubSeq(t, k + 1, k + Len(p)) = p

\* text.split("\n")
RECURSIVE SplitLines(_)
SplitLines(t) ==
    IF \A k \in 1..Len(t) : t[k] # "\n" THEN <<t>>
    ELSE LET k == CHOOSE k \in 1..Len(t) :
                      t[k] = "\n" /\ \A m \in 1..(k - 1) : t[m] # "\n"
         IN <<SubSeq(t, 1, k - 1)>> \o SplitLines(SubSeq(t, k + 1, Len(t)))

sqlKeywords ==
    <<<<"S", "E", "L", "E", "C", "T">>,
      <<"I", "N", "S", "E", "R", "T">>,
      <<"U", "P", "D", "A", "T", "E">>,
      <<"D", "E", "L", "E", "T", "E">>,
      <<"C", "R", "E", "A", "T", "E">>,
      <<"A", "L", "T", "E", "R">>,
      <<"D", "R", "O", "P">>,
      <<"S", "H", "O", "W">>,
      <<"U", "S", "E">>,
      <<"D", "E", "S", "C", "R", "I", "B", "E">>,
      <<"D", "E", "S", "C">>,
      <<"E", "X", "P", "L", "A", "I", "N">>>>

mermaidKeywords ==
    <<<<"g", "r", "a", "p", "h">>,
      <<"s", "e", "q", "u", "e", "n", "c", "e", "d", "i", "a", "g", "r", "a", "m">>,
      <<"c", "l", "a", "s", "s", "d", "i", "a", "g", "r", "a", "m">>,
      <<"s", "t", "a", "t", "e", "d", "i", "a", "g", "r", "a", "m">>,
      <<"e", "r", "d", "i", "a", "g", "r", "a", "m">>,
      <<"p", "i", "e">>,
      <<"g", "a", "n", "t", "t">>,
      <<"j", "o", "u", "r", "n", "e", "y">>,
      <<"f", "l", "o", "w", "c", "h", "a", "r", "t">>,
      <<"g", "i", "t", "g", "r", "a", "p", "h">>,
      <<"m", "i", "n", "d", "m", "a", "p">>,
      <<"t", "i", "m", "e", "l", "i", "n", "e">>,
      <<"q", "u", "a", "d", "r", "a", "n", "t", "c", "h", "a", "r", "t">>>>

\* The diagram names the first pass of wrapCodeBlocks tests for.
mermaidStarts ==
    <<<<"e", "r", "D", "i", "a", "g", "r", "a", "m">>,
      <<"g", "r", "a", "p", "h">>,
      <<"s", "e", "q", "u", "e", "n", "c", "e", "D", "i", "a", "g", "r", "a", "m">>,
      <<"c", "l", "a", "s", "s", "D", "i", "a", "g", "r", "a", "m">>,
      <<"s", "t", "a", "t", "e", "D", "i", "a", "g", "r", "a", "m">>,
      <<"p", "i", "e">>,
      <<"g", "a", "n", "t", "t">>,
      <<"j", "o", "u", "r", "n", "e", "y">>>>

\* isSqlContent of components/code-blocks.js
IsSqlContent1(text, className) ==
    \/ Includes(ToLowerCase(className), <<"s", "q", "l">>)
    \/ \E n \in 1..Len(SplitLines(text)) :
          LET trimmedUpper == ToUpperCase(Trim(SplitLines(text)[n]))
          IN \E k \in 1..Len(sqlKeywords) :
                \/ StartsWith(trimmedUpper, sqlKeywords[k] \o <<" ">>)
                \/ trimmedUpper = sqlKeywords[k]

\* _isSqlContent of unnamed/part_001
IsSqlContent2(code, className) ==
    \/ Includes(ToLowerCase(className), <<"s", "q", "l">>)
    \/ LET upperCode == ToUpperCase(code)
       IN \E k \in 1..Len(sqlKeywords) :
             \/ Includes(upperCode, sqlKeywords[k] \o <<" ">>)
             \/ StartsWith(Trim(upperCode), sqlKeywords[k])

IsSqlContent(v, text, className) ==
    IF v = 1 THEN IsSqlContent1(text, className)
    ELSE IsSqlContent2(text, className)

\* The test in the first pass of wrapCodeBlocks of components/code-blocks.js
IsMermaidContent1(text) ==
    LET content == Trim(text)
    IN \E k \in 1..Len(mermaidStarts) : StartsWith(content, mermaidStarts[k])

\* _isMermaidContent of unnamed/part_001
IsMermaidContent2(code) ==
    LET lines == SplitLines(Trim(code))
    IN \E n \in 1..Len(lines) :
          LET trimmedLine == ToLowerCase(Trim(lines[n]))
          IN \E k \in 1..Len(mermaidKeywords) :
                \/ StartsWith(trimmedLine, mermaidKeywords[k] \o <<" ">>)
                \/ trimmedLine = mermaidKeywords[k]
                \/ StartsWith(trimmedLine, mermaidKeywords[k] \o <<":">>)

IsMermaidContent(v, text) ==
    IF v = 1 THEN IsMermaidContent1(text) ELSE IsMermaidContent2(text)

IsDigit(ch) == ch \in {"0", "1", "2", "3", "4", "5", "6", "7", "8", "9"}

\* The index after the white space that starts at i.
RECURSIVE SkipWs(_, _)
SkipWs(t, i) == IF i <= Len(t) /\ IsWs(t[i]) THEN SkipWs(t, i + 1) ELSE i

RECURSIVE SkipDigits(_, _)
SkipDigits(t, i) == IF i <= Len(t) /\ IsDigit(t[i]) THEN SkipDigits(t, i + 1) ELSE i

\* JSON.parse on texts of brackets, braces, commas, digits and white space:
\* the index after the value that starts at i, or 0 if there is none.
RECURSIVE JsonValue(_, _)
RECURSIVE JsonElements(_, _)
JsonValue(t, i) ==
    LET a == SkipWs(t, i)
    IN IF a > Len(t) THEN 0
       ELSE IF t[a] = "{"
            THEN LET b == SkipWs(t, a + 1)
                 IN IF b <= Len(t) /\ t[b] = "}" THEN b + 1 ELSE 0
       ELSE IF t[a] = "["
            THEN LET b == SkipWs(t, a + 1)
                 IN IF b <= Len(t) /\ t[b] = "]" THEN b + 1
                    ELSE JsonElements(t, a + 1)
       ELSE IF IsDigit(t[a])
            THEN IF t[a] = "0" THEN a + 1 ELSE SkipDigits(t, a)
       ELSE 0

\* The elements of an array from i up to and including the closing bracket.
JsonElements(t, i) ==
    LET e == JsonValue(t, i)
        b == SkipWs(t, e)
    IN IF e = 0 \/ b > Len(t) THEN 0
       ELSE IF t[b] = "]" THEN b + 1
       ELSE IF t[b] = "," THEN JsonElements(t, b + 1)
       ELSE 0

\* JSON.parse(t) returns.
JsonParses(t) ==
    LET e == JsonValue(t, 1)
    IN e # 0 /\ SkipWs(t, e) = Len(t) + 1

\* _detectLanguage of unnamed/part_001
DetectLanguage(code) ==
    LET trimmed == Trim(code)
    IN IF IsSqlContent2(code, <<>>) THEN "sql"
       ELSE IF IsMermaidContent2(code) THEN "mermaid"
       ELSE IF /\ \/ StartsWith(trimmed, <<"{">>) /\ EndsWith(trimmed, <<"}">>)
                  \/ StartsWith(trimmed, <<"[">>) /\ EndsWith(trimmed, <<"]">>)
               /\ JsonParses(trimmed)
            THEN "json"
       ELSE IF \/ Includes(code, <<"d", "e", "f", " ">>)
               \/ Includes(code, <<"i", "m", "p", "o", "r", "t", " ">>)
               \/ Includes(code, <<"f", "r", "o", "m", " ">>)
            THEN "python"
       ELSE IF \/ Includes(code, <<"f", "u", "n", "c", "t", "i", "o", "n">>)
               \/ Includes(code, <<"=", ">">>)
               \/ Includes(code, <<"c", "o", "n", "s", "t", " ">>)
            THEN "javascript"
       ELSE "null"

\* The pieces the detector inputs are made of.
Pieces ==
    <<<<"S", "E", "L", "E", "C", "T">>,
      <<"u", "s", "e">>,
      <<"h", "o", "u", "s", "e">>,
      <<" ">>,
      <<"\t">>,
      <<"\n">>,
      <<"x">>,
      <<"g", "r", "a", "p", "h">>,
      <<"p", "i", "e">>,
      <<"c", "e">>,
      <<":">>,
      <<"[">>,
      <<"]">>,
      <<"1">>,
      <<"i", "m", "p", "o", "r", "t", " ">>,
      <<"=", ">">>>>

RECURSIVE PieceTexts(_)
PieceTexts(n) ==
    IF n = 0 THEN {<<>>}
    ELSE PieceTexts(n - 1) \cup
         {t \o Pieces[k] : t \in PieceTexts(n - 1), k \in 1..Len(Pieces)}

Hints == {<<>>, <<"l", "a", "n", "g", "u", "a", "g", "e", "-", "s", "q", "l">>}

NoCall == [fn |-> "none", val |-> "none"]

\* A boolean result as it is kept in dres.
Bool(b) == IF b THEN "true" ELSE "false"

CallIsSqlContent ==
    /\ dres.fn = "none"
    /\ dres' = [fn |-> "isSqlContent", val |-> Bool(IsSqlContent(detv, dtext, dhint))]
    /\ UNCHANGED <<detv, dtext, dhint>>

CallIsMermaidContent ==
    /\ dres.fn = "none"
    /\ dres' = [fn |-> "isMermaidContent", val |-> Bool(IsMermaidContent(detv, dtext))]
    /\ UNCHANGED <<detv, dtext, dhint>>

CallDetectLanguage ==
    /\ dres.fn = "none"
    /\ detv = 2
    /\ dres' = [fn |-> "detectLanguage", val |-> DetectLanguage(dtext)]
    /\ UNCHANGED <<detv, dtext, dhint>>

InitDetect ==
    /\ detv \in {1, 2}
    /\ dtext \in PieceTexts(MaxPieces)
    /\ dhint \in Hints
    /\ dres = NoCall

IdleDetect ==
    /\ detv = 1
    /\ dtext = <<>>
    /\ dhint = <<>>
    /\ dres = NoCall

----------------------------------------------------------------------------
(* Partial rendering of text marked.parse fails on *)

\* "!" stands for content on which marked.parse throws.
Parses(content) == ~Includes(content, <<"!">>)

\* replace(/&/g, "&amp;").replace(/</g, "&lt;").replace(/>/g, "&gt;")
RECURSIVE Escape(_)
Escape(t) ==
    IF t = <<>> THEN <<>>
    ELSE (IF Head(t) = "&" THEN <<"&", "a", "m", "p", ";">>
          ELSE IF Head(t) = "<" THEN <<"&", "l", "t", ";">>
          ELSE IF Head(t) = ">" THEN <<"&", "g", "t", ";">>
          ELSE <<Head(t)>>) \o Escape(Tail(t))

\* processPartialMarkdown with marked.parse as it is: the source in
\* services/markdown-service.js has evicted from both caches when the
\* exception of marked.parse leaves it; the one in unnamed/part_001 catches
\* it, stores the escaped text and returns it.
ProcessPartialMarkdownThrowing(v, c, p, content) ==
    IF Has(p, content) \/ Parses(content)
    THEN [threw |-> FALSE] @@ ProcessPartialMarkdown(v, c, p, content)
    ELSE IF v = 1
         THEN [cache |-> CleanIfTooLarge(c), partial |-> CleanIfTooLarge(p),
               ret |-> ret, parsed |-> TRUE, threw |-> TRUE]
         ELSE LET escaped == [kind |-> "escaped", src |-> Escape(content)]
              IN [cache |-> c, partial |-> MapSet(p, content, escaped),
                  ret |-> escaped, parsed |-> TRUE, threw |-> FALSE]

\* The chunks a failing stream is made of.
FaultChunks == {<<"a">>, <<"!">>, <<"<">>, LongChunk}

RECURSIVE ChunkSeqs(_)
ChunkSeqs(n) ==
    IF n = 0 THEN {<<>>}
    ELSE ChunkSeqs(n - 1) \cup
         {Append(b, ch) : b \in ChunkSeqs(n - 1), ch \in FaultChunks}

\* appendGenieStreamChunk for the next chunk of the body: the buffer grows,
\* the whole buffer is rendered and a wrapCodeBlocks pass is queued; if
\* processPartialMarkdown throws, the buffer is shown as plain text.
AppendGenieStreamChunk ==
    /\ pf.body # <<>>
    /\ LET newRaw == AppendChunk(pf.raw, Head(pf.body))
       IN \E part \in {ProcessPartialMarkdownThrowing(svc, cache, partialCache, newRaw)} :
          /\ pf' = [body |-> Tail(pf.body),
                    raw |-> newRaw,
                    html |-> IF part.threw THEN [kind |-> "text", src |-> newRaw]
                             ELSE part.ret,
                    wrapQueued |-> IF part.threw THEN pf.wrapQueued
                                   ELSE pf.wrapQueued + 1,
                    threw |-> pf.threw + (IF part.threw THEN 1 ELSE 0),
                    handled |-> pf.handled + 1]
          /\ cache' = part.cache
          /\ partialCache' = part.partial
          /\ ret' = part.ret
          /\ parsed' = part.parsed
          /\ lastCall' = "partial"
          /\ lastKey' = newRaw
    /\ UNCHANGED svc

InitParseFault ==
    \E b \in ChunkSeqs(MaxChunks) :
        pf = [body |-> b, raw |-> <<>>, html |-> Empty, wrapQueued |-> 0,
              threw |-> 0, handled |-> 0]

IdleParseFault ==
    pf = [body |-> <<>>, raw |-> <<>>, html |-> Empty, wrapQueued |-> 0,
          threw |-> 0, handled |-> 0]

\* The chat area starts scrolled to its end.
IdleScroll == atBottom = TRUE

----------------------------------------------------------------------------
(* retryWithBackoff *)

\* What one call of fn settles with: a value, or an error of some type.
FnOutcomes == {"value", "NETWORK", "DATABASE", "AUTH"}

InitialDelays == {1, 1000}

\* The state of retryWithBackoff(fn, maxRetries, initialDelay) at entry.
NewRetry(maxRetries, initialDelay) ==
    [maxRetries |-> maxRetries, initialDelay |-> initialDelay,
     i |-> 0,                \* the loop variable
     pc |-> IF maxRetries > 0 THEN "ready" ELSE "throw",
     calls |-> 0,            \* calls of fn
     attempts |-> <<>>,      \* what the calls of fn settled with, in order
     waits |-> <<>>,         \* the delays of the timers started, in order
     lastError |-> "undefined",
     result |-> [kind |-> "none", val |-> "none"]]

\* The error object of the k-th call of fn.
ErrorOf(type, k) == [type |-> type, attempt |-> k]

\* A faulty catch block that retries after an authentication error too.
CatchRetriesAuth(rt, type) ==
    LET err == ErrorOf(type, rt.calls)
        seen == [rt EXCEPT !.attempts = Append(@, type), !.lastError = err]
    IN IF rt.i < rt.maxRetries - 1
       THEN [seen EXCEPT !.pc = "waiting",
                         !.waits = Append(@, rt.initialDelay * 2^(rt.i))]
       ELSE [seen EXCEPT !.pc = "throw", !.i = @ + 1]

\* The catch block of one iteration.
Catch(rt, type) ==
    LET err == ErrorOf(type, rt.calls)
        seen == [rt EXCEPT !.attempts = Append(@, type), !.lastError = err]
    IN IF type = "AUTH"
       THEN [seen EXCEPT !.pc = "thrown", !.result = [kind |-> "error", val |-> err]]
       ELSE IF rt.i < rt.maxRetries - 1
       THEN [seen EXCEPT !.pc = "waiting",
                         !.waits = Append(@, rt.initialDelay * 2^(rt.i))]
       ELSE [seen EXCEPT !.pc = "throw", !.i = @ + 1]

\* The loop body starts: fn is called and awaited.
CallFn ==
    /\ retry.pc = "ready"
    /\ retry' = [retry EXCEPT !.pc = "pending", !.calls = @ + 1]

\* The promise of fn settles.
FnSettles ==
    /\ retry.pc = "pending"
    /\ \E o \in FnOutcomes :
          retry' = IF o = "value"
                   THEN [retry EXCEPT !.pc = "returned",
                                      !.attempts = Append(@, o),
                                      !.result = [kind |-> "value", val |-> retry.calls]]
                   ELSE Catch(retry, o)

\* The backoff timer fires and the loop goes to its next iteration.
DelayElapsed ==
    /\ retry.pc = "waiting"
    /\ retry' = [retry EXCEPT !.pc = "ready", !.i = @ + 1]

\* throw lastError after the loop.
ThrowLastError ==
    /\ retry.pc = "throw"
    /\ retry' = [retry EXCEPT !.pc = "thrown",
                              !.result = [kind |-> "error", val |-> retry.lastError]]

InitRetry ==
    \E m \in 0..MaxRetries, d \in InitialDelays : retry = NewRetry(m, d)

IdleRetry == retry = NewRetry(0, 1)

----------------------------------------------------------------------------
(* Memory manager: startCacheCleanup and stopCacheCleanup *)

\* cacheCleanupInterval before the first start (undefined) and after a stop
\* (null); timer ids are positive.
NoInterval == 0

\* The module state at load time, with the timers the host keeps.
NewMemoryManager ==
    [cacheCleanupInterval |-> NoInterval,
     active |-> {},      \* ids of the intervals the host still fires
     starts |-> 0,       \* setInterval calls, which also number the ids
     fired |-> 0]        \* firings of an interval callback

\* clearInterval(id) on the host's timers.
ClearInterval(active, id) == active \ {id}

\* A faulty startCacheCleanup that does not clear the interval it replaces.
StartKeepsOld(m) ==
    LET id == m.starts + 1
    IN [m EXCEPT !.cacheCleanupInterval = id,
                 !.active = @ \cup {id},
                 !.starts = id]

\* startCacheCleanup()
Start(m) ==
    LET cleared == IF m.cacheCleanupInterval # NoInterval
                   THEN ClearInterval(m.active, m.cacheCleanupInterval)
                   ELSE m.active
        id == m.starts + 1
    IN [m EXCEPT !.cacheCleanupInterval = id,
                 !.active = cleared \cup {id},
                 !.starts = id]

\* stopCacheCleanup()
Stop(m) ==
    IF m.cacheCleanupInterval # NoInterval
    THEN [m EXCEPT !.active = ClearInterval(@, m.cacheCleanupInterval),
                   !.cacheCleanupInterval = NoInterval]
    ELSE m

\* MarkdownService.clearCache
ClearCache(c) == <<>>

StartCacheCleanup ==
    /\ mm.starts < MaxStarts
    /\ mm' = Start(mm)
    /\ UNCHANGED <<cacheVars, loadVars>>

StopCacheCleanup ==
    /\ mm' = Stop(mm)
    /\ UNCHANGED <<cacheVars, loadVars>>

\* The callback of interval id runs: both caches are cleared.
IntervalFires(id) ==
    /\ id \in mm.active
    /\ mm.fired < MaxFirings
    /\ mm' = [mm EXCEPT !.fired = @ + 1]
    /\ cache' = ClearCache(cache)
    /\ partialCache' = ClearCache(partialCache)
    /\ lastCall' = "clear"
    /\ Track(cache, ClearCache(cache), FALSE)
    /\ UNCHANGED <<svc, ret, parsed, lastKey, load, nextId>>

InitMemory == mm = NewMemoryManager

IdleMemory == mm = NewMemoryManager

----------------------------------------------------------------------------
(* Interactive result table: setupTableInteractivity *)

\* Cell values: one-letter strings.
Cells == {<<"a">>, <<"b">>, <<"c">>}

\* String(aVal).localeCompare(String(bVal)) for such cells: the sign of the
\* difference of the letters' places in the alphabet.
Rank(cell) == CHOOSE k \in 1..Len(Lowers) : Lowers[k] = cell[1]

LocaleCompare(a, b) == Rank(a) - Rank(b)

\* The comparator handed to Array.prototype.sort; columns count from 1 here.
Comparator(a, b, column, direction) ==
    LET comparison == LocaleCompare(a[column], b[column])
    IN IF direction = "asc" THEN comparison ELSE 0 - comparison

\* Array.prototype.sort, which is stable: a row goes behind every row the
\* comparator does not put after it.
RECURSIVE InsertRow(_, _, _, _)
InsertRow(sorted, row, column, direction) ==
    IF sorted = <<>> THEN <<row>>
    ELSE IF Comparator(Head(sorted), row, column, direction) <= 0
         THEN <<Head(sorted)>> \o InsertRow(Tail(sorted), row, column, direction)
         ELSE <<row>> \o sorted

RECURSIVE SortRows(_, _, _)
SortRows(rows, column, direction) ==
    IF rows = <<>> THEN <<>>
    ELSE InsertRow(SortRows(SubSeq(rows, 1, Len(rows) - 1), column, direction),
                   rows[Len(rows)], column, direction)

\* originalRows.filter(row => row.some(cell => ... includes(searchTerm)))
FilterRows(rows, searchTerm) ==
    SelectSeq(rows, LAMBDA row :
        \E c \in 1..Len(row) : Includes(ToLowerCase(row[c]), searchTerm))

\* The table when setupTableInteractivity returns.
NewTable(rows) ==
    [originalRows |-> rows,
     currentRows |-> rows,
     body |-> rows,            \* the rows of <tbody>
     dirs |-> [c \in 1..NumColumns |-> "none"],   \* th.dataset.sortDirection
     sortState |-> [column |-> 0, direction |-> "none"],
     last |-> [event |-> "none", column |-> 0,    \* the last event, and the
               dirs |-> [c \in 1..NumColumns |-> "none"],   \* state it met
               sortState |-> [column |-> 0, direction |-> "none"]]]

\* none -> asc -> desc -> none
NextDirection(currentDirection) ==
    IF currentDirection = "none" THEN "asc"
    ELSE IF currentDirection = "asc" THEN "desc"
    ELSE "none"

\* The click listener of header column.
Click(t, column) ==
    LET newDirection == NextDirection(t.dirs[column])
        rows == IF newDirection = "none" THEN t.originalRows
                ELSE SortRows(t.currentRows, column, newDirection)
    IN [t EXCEPT !.dirs = [c \in 1..NumColumns |->
                              IF c = column THEN newDirection ELSE "none"],
                 !.currentRows = rows,
                 !.sortState = [column |-> column, direction |-> newDirection],
                 !.body = rows]

\* The input listener of the search field.
Input(t, value) ==
    LET searchTerm == Trim(ToLowerCase(value))
    IN IF searchTerm = <<>>
       THEN IF t.sortState.direction # "none"
            THEN Click([t EXCEPT !.currentRows = t.originalRows],
                       t.sortState.column)
            ELSE [t EXCEPT !.currentRows = t.originalRows,
                           !.body = t.originalRows]
       ELSE LET rows == FilterRows(t.originalRows, searchTerm)
            IN [t EXCEPT !.currentRows = rows, !.body = rows]

\* What the user types into the search field.
SearchValues == {<<>>, <<" ">>, <<"a">>, <<"B">>}

Remember(t, event, column) ==
    [event |-> event, column |-> column, dirs |-> t.dirs, sortState |-> t.sortState]

HeaderClick(column) ==
    tbl' = [Click(tbl, column) EXCEPT !.last = Remember(tbl, "click", column)]

SearchInput(value) ==
    tbl' = [Input(tbl, value) EXCEPT
               !.last = Remember(tbl, IF Trim(ToLowerCase(value)) = <<>>
                                      THEN "clear" ELSE "filter", 0)]

TableRows ==
    UNION {[1..n -> [1..NumColumns -> Cells]] : n \in 1..MaxRows}

InitTable == \E rows \in TableRows : tbl = NewTable(rows)

IdleTable == tbl = NewTable(<<>>)

IdleTail == IdleMemory /\ IdleTable

IdleLate ==
    /\ IdleDetect
    /\ IdleParseFault
    /\ IdleScroll
    /\ IdleRetry
    /\ IdleTail

IdleExtras ==
    /\ IdleFault
    /\ IdleDiagram
    /\ IdleChat
    /\ IdleRun
    /\ IdleLate

vars == <<cacheVars, loadVars, enhVars, revealVars, streamVars, extraVars>>

\* The parts of the state a specification does not exercise.
IdleEnhance ==
    /\ cbv = 1
    /\ blocks = <<>>
    /\ passes = 0
    /\ afterFirst = <<>>

IdleCache ==
    /\ svc = 1
    /\ load = "none"
    /\ InitService
    /\ InitLoad

InitCache ==
    /\ svc \in {1, 2}
    /\ load \in {"full", "partial"}
    /\ InitService
    /\ InitLoad
    /\ IdleEnhance
    /\ IdleReveal
    /\ IdleExtras

NextCache ==
    (RenderFull \/ RenderPartial) /\ UNCHANGED <<enhVars, revealVars, streamVars, extraVars>>

SpecCache == InitCache /\ [][NextCache]_vars

InitEnh == InitEnhance /\ IdleCache /\ IdleReveal /\ IdleExtras

NextEnh ==
    EnhancePass /\ UNCHANGED <<cacheVars, loadVars, revealVars, streamVars, extraVars>>

SpecEnhance == InitEnh /\ [][NextEnh]_vars

InitVariants ==
    /\ svc \in {1, 2}
    /\ twv \in {1, 2}
    /\ mhv \in {1, 2}
    /\ load = "none"
    /\ InitService
    /\ InitLoad
    /\ IdleEnhance
    /\ InitRevealVars
    /\ IdleExtras

InitReveal == InitVariants /\ msgLimit = MaxMsgs

NextReveal ==
    /\ \/ \E t \in Texts : AddGenieResponse(t)
       \/ \E tm \in timers : StartTyping(tm)
       \/ \E tm \in timers : ImportThen(tm)
       \/ \E tm \in timers : AfterDiagram(tm)
       \/ \E tm \in timers : ClearAfterDiagram(tm)
       \/ \E tm \in timers : WrapLater(tm)
       \/ \E r \in 1..Len(runs) : AnimateText(r)
       \/ \E r \in 1..Len(runs) : CancelRun(r)
    /\ UNCHANGED <<loadVars, enhVars, streamVars, extraVars>>

SpecReveal == InitReveal /\ [][NextReveal]_vars

\* The host runs every pending frame callback on its next frame.
Frame ==
    /\ \E r \in 1..Len(runs) : AnimateText(r)
    /\ UNCHANGED <<loadVars, enhVars, streamVars, extraVars>>

\* One response at a time: up to two runs of one response are live together.
InitRevealOne == InitVariants /\ msgLimit = MinMsgs

\* Frame is enabled exactly when some run has a frame pending.
FramePending == \E r \in 1..Len(runs) : runs[r].frame

\* Weak fairness of Frame, WF_vars(Frame), with ENABLED <<Frame>>_vars
\* written out as FramePending: the host keeps delivering animation frames
\* while a callback is registered.
FrameFairness == []<>(~FramePending) \/ []<><<Frame>>_vars

FairSpecReveal == InitRevealOne /\ [][NextReveal]_vars /\ FrameFairness

MaxRuns == 2 * MinMsgs

----------------------------------------------------------------------------
(* Claims about the markdown service caches (SpecCache) *)

\* C1: after any sequence of processFullMarkdown and processPartialMarkdown
\* calls with distinct texts, neither the full nor the partial cache holds
\* more than maxCacheSize entries.
C1_CacheNeverExceedsBound ==
    /\ Len(cache) <= maxCacheSize
    /\ Len(partialCache) <= maxCacheSize

\* C2: eviction is first-in-first-out: once maxCacheSize + 1 distinct keys
\* have been inserted into the empty full cache, exactly the first-inserted
\* key has been evicted and no other; and a cache hit never changes the order
\* in which keys will be evicted.
C2_FifoEvictsFirstAtBoundPlusOne ==
    /\ ins = maxCacheSize + 1 => evicted = <<firstIns>>
    /\ ~hitMoved

\* C3: processFullMarkdown is memoized: every cached value is the markup of
\* its key, and a call whose content is in the full cache returns that cached
\* value without running marked.parse and without touching the cache.
C3_FullRenderMemoized ==
    /\ [](\A i \in 1..Len(cache) : cache[i].val = Markup(cache[i].key))
    /\ [][(lastCall' = "full" /\ Has(cache, lastKey'))
            => (/\ ret' = Get(cache, lastKey')
                /\ ret' = Markup(lastKey')
                /\ ~parsed'
                /\ cache' = cache)]_vars

\* A second processFullMarkdown of the oldest key while the cache is over its
\* configured size: served from the cache, nothing parsed, nothing evicted.
C3_Witness ==
    /\ lastCall = "full"
    /\ ~parsed
    /\ Len(cache) > maxCacheSize
    /\ lastKey = cache[1].key
    /\ ret = Markup(lastKey)

----------------------------------------------------------------------------
(* Claims about the block enhancer (SpecEnhance) *)

\* C4: wrapCodeBlocks is idempotent: after any number of passes the surface
\* is what the first pass left, and every code block carries exactly one copy
\* button, at most one execute button, at most one wrapper and at most one
\* diagram container.
C4_EnhanceIdempotent ==
    passes >= 1 =>
        /\ blocks = afterFirst
        /\ \A i \in 1..Len(blocks) :
              /\ blocks[i].copy = 1
              /\ blocks[i].run <= 1
              /\ blocks[i].wrap <= 1
              /\ blocks[i].diag <= 1

Completed(run) == run.log # <<>> /\ \E k \in 1..Len(run.log) : run.log[k] = "full"

\* C6: once a run has completed, its surface shows the full render of the
\* whole text, whatever partial renders were written on earlier frames.
C6_FinalContentIsFullRender ==
    \A r \in 1..Len(runs) :
        Completed(runs[r]) =>
            surfaces[runs[r].surf].html = ProcessFullMarkdown(<<>>, runs[r].text).ret

C6_Witness ==
    /\ \E r \in 1..Len(runs) :
          /\ Completed(runs[r])
          /\ runs[r].text = TSpaced
          /\ surfaces[runs[r].surf].html = Markup(TSpaced)
    /\ \E r \in 1..Len(runs) :
          /\ Completed(runs[r])
          /\ runs[r].text = TEmpty
          /\ surfaces[runs[r].surf].html = Markup(TEmpty)

\* C7: from the first call of the cleanup function on, the run has no frame
\* pending and no wheel/touchmove listener registered, and no later step,
\* a further cleanup call included, makes it write to its surface or call
\* its callback.
C7_CancelIdempotent ==
    /\ [](\A r \in 1..Len(runs) :
            runs[r].cancels > 0 => (~runs[r].frame /\ ~runs[r].listeners))
    /\ [][\A r \in 1..Len(runs) :
            runs[r].cancels > 0 =>
                /\ runs'[r].log = runs[r].log
                /\ runs'[r].done = runs[r].done
                /\ surfaces'[runs[r].surf].html = surfaces[runs[r].surf].html]_vars

C7_Witness ==
    \E r \in 1..Len(runs) :
        /\ runs[r].cancels = 2
        /\ runs[r].log = <<"partial">>
        /\ runs[r].done = 0
        /\ ~runs[r].frame
        /\ surfaces[runs[r].surf].html # Empty

\* C8: no two runs with a frame pending write to the same surface.
C8_OneLiveRunPerSurface ==
    \A r1, r2 \in 1..Len(runs) :
        (r1 # r2 /\ runs[r1].frame /\ runs[r2].frame)
            => runs[r1].surf # runs[r2].surf

C8_Witness ==
    \E r1, r2 \in 1..Len(runs) :
        /\ r1 # r2
        /\ runs[r1].frame /\ runs[r2].frame
        /\ runs[r1].log # <<>> /\ runs[r2].log # <<>>

\* appendGenieStreamChunk is exported by the rewritten message handler
\* only (message-handler.js 215-357).
InitStream == InitVariants /\ mhv = 2 /\ msgLimit = 0

NextStream ==
    /\ \/ \E prompt \in Prompts : SendUserInput(prompt)
       \/ \E i \in 1..Len(sends), body \in Bodies : FetchOk(i, body)
       \/ \E i \in 1..Len(sends) : StreamError(i)
       \/ \E i \in 1..Len(sends) : ReadChunk(i)
       \/ \E i \in 1..Len(sends) : ReadDone(i)
       \/ WrapFrame
       \/ (\E tm \in timers : StartTyping(tm)) /\ UNCHANGED sends
       \/ (\E r \in 1..Len(runs) : AnimateText(r)) /\ UNCHANGED sends
       \/ (\E tm \in timers : WrapLater(tm)) /\ UNCHANGED sends
    /\ UNCHANGED <<loadVars, enhVars, extraVars>>

SpecStream == InitStream /\ [][NextStream]_vars

RECURSIVE Concat(_)
Concat(seqs) == IF seqs = <<>> THEN <<>> ELSE Head(seqs) \o Concat(Tail(seqs))

\* C9: at most one send is in its chunk-reading loop at any time.
C9_OneStreamAtATime ==
    \A i, k \in 1..Len(sends) :
        (sends[i].pc = "read" /\ sends[k].pc = "read") => i = k

\* C10: after every chunk the data-raw buffer of a stream's surface, and
\* fullResponse, are the chunks handled so far joined in arrival order, and
\* until the final render the surface shows the partial render of that
\* whole buffer.
C10_ChunksAppendedInOrder ==
    \A i \in 1..Len(sends) :
        sends[i].msg # 0 =>
            LET sf == surfaces[sends[i].msg] IN
            /\ sf.raw = Concat(sends[i].chunks)
            /\ sends[i].full = Concat(sends[i].chunks)
            /\ sends[i].pc # "done" =>
                  sf.html = ProcessPartialMarkdown(svc, <<>>, <<>>, sf.raw).ret

C10_Witness ==
    \E i \in 1..Len(sends) :
        /\ sends[i].pc = "read"
        /\ sends[i].chunks = << <<"a">>, <<"$">>, LongChunk >>
        /\ surfaces[sends[i].msg].raw = <<"a", "$">> \o LongChunk
        /\ surfaces[sends[i].msg].html = Markup(<<"a", "$">> \o LongChunk)

\* The <pre><code> blocks marked.parse produces for a markup: one SQL block
\* per "$", one diagram block per "#", all children of the surface.
RECURSIVE BlocksOfText(_)
BlocksOfText(t) ==
    IF t = <<>> THEN <<>>
    ELSE (IF Head(t) = "$" THEN <<NewBlock("sql", 1)>>
          ELSE IF Head(t) = "#" THEN <<NewBlock("mermaid", 1)>>
          ELSE <<>>) \o BlocksOfText(Tail(t))

BlocksOf(markup) == BlocksOfText(markup.src)

RECURSIVE WrapTimes(_, _, _)
WrapTimes(v, bs, n) ==
    IF n = 0 THEN bs ELSE WrapTimes(v, WrapCodeBlocks(v, bs), n - 1)

\* What a surface shows: its markup after the wrapCodeBlocks passes run on it.
Enhanced(v, sf) == WrapTimes(v, BlocksOf(sf.html), sf.passes)

\* C11: once a stream has ended, its surface is and stays the full render of
\* the whole response with exactly one enhancement pass applied; no pass
\* queued while chunks arrived changes it afterwards.
C11_FinalizedStateIsLast ==
    \A i \in 1..Len(sends) :
        (sends[i].pc = "done" /\ sends[i].msg # 0) =>
            LET sf == surfaces[sends[i].msg]
                final == ProcessFullMarkdown(<<>>, Concat(sends[i].chunks)).ret
            IN /\ sf.html = final
               /\ Enhanced(cbv, sf) = WrapCodeBlocks(cbv, BlocksOf(final))

\* C12: after a stream has ended, the partial cache holds no entry made for
\* one of that message's accumulated buffers.
C12_PartialCacheClearedAfterStream ==
    \A i \in 1..Len(sends) :
        sends[i].pc = "done" =>
            \A k \in 1..Len(sends[i].chunks) :
                ~Has(partialCache, Concat(SubSeq(sends[i].chunks, 1, k)))

\* C13: every failed send has added exactly one assistant message, and after
\* a read that failed mid-message the bubble of the failed message shows
\* none of the markup rendered from the chunks received so far.
C13_NoPartialMarkupAfterReadError ==
    /\ nMsgs = Cardinality({i \in 1..Len(sends) : sends[i].pc = "failed"})
    /\ \A i \in 1..Len(sends) :
          (sends[i].pc = "failed" /\ sends[i].msg # 0) =>
              surfaces[sends[i].msg].html = Empty

Range(f) == {f[x] : x \in DOMAIN f}

\* C14: whatever other sends failed, a send that reaches the end of its
\* stream has its bubble hold the full render of its own chunks, and every
\* text typed for a failure is one of handleError's fixed texts.
C14_FailureIsolated ==
    /\ \A tm \in timers : tm.kind = "type" => tm.text \in Range(ErrorMessages)
    /\ \A r \in 1..Len(runs) : runs[r].text \in Range(ErrorMessages)
    /\ \A i \in 1..Len(sends) :
          (sends[i].pc = "done" /\ sends[i].msg # 0) =>
              LET sf == surfaces[sends[i].msg] IN
              /\ sf.raw = Concat(sends[i].chunks)
              /\ sf.html = ProcessFullMarkdown(<<>>, Concat(sends[i].chunks)).ret

\* The first send failed at fetch and its friendly text was typed out before
\* the second prompt was sent; the second send then streamed to its end.
C14_Witness ==
    /\ Len(sends) = 2
    /\ Len(surfaces) = 4
    /\ sends[1].pc = "failed" /\ sends[1].msg = 0
    /\ surfaces[2].html = Markup(Friendly)
    /\ \E r \in 1..Len(runs) : runs[r].surf = 2 /\ runs[r].done = 1
    /\ surfaces[3].html = Markup(<<"q">>)
    /\ sends[2].pc = "done" /\ sends[2].msg = 4
    /\ surfaces[4].html = Markup(<<"a", "$">> \o LongChunk)

InitEnhFault ==
    /\ InitEnhance
    /\ IdleCache
    /\ IdleReveal
    /\ faulty \in 1..Len(blocks)
    /\ IdleDiagram
    /\ IdleChat
    /\ IdleRun
    /\ IdleLate

NextEnhFault ==
    /\ EnhancePassThrowing
    /\ UNCHANGED <<cacheVars, loadVars, revealVars, streamVars, diagVars, chatVars, runVars, lateVars>>

SpecEnhanceFault == InitEnhFault /\ [][NextEnhFault]_vars

\* C15: after a pass in which enhancing one block threw, every other block
\* of the surface has its copy button.
C15_SiblingsStillEnhanced ==
    passes >= 1 =>
        \A i \in 1..Len(blocks) : i # faulty => blocks[i].copy >= 1

InitDiag ==
    /\ InitDiagram
    /\ IdleCache
    /\ cbv \in {1, 2, 3}
    /\ blocks = <<>>
    /\ passes = 0
    /\ afterFirst = <<>>
    /\ IdleReveal
    /\ IdleFault
    /\ IdleChat
    /\ IdleRun
    /\ IdleLate

NextDiag ==
    /\ \/ \E code \in Codes : DiagramBlock(code)
       \/ \E k \in 1..Len(calls) : RenderStart(k)
       \/ \E k \in 1..Len(calls) : ScriptLoaded(k)
       \/ \E k \in 1..Len(calls) : ScriptFails(k)
       \/ \E k \in 1..Len(calls) : RenderTimer(k)
       \/ \E k \in 1..Len(calls) : RenderSettled(k)
       \/ \E k \in 1..Len(calls) : ToggleClick(k)
       \/ \E k \in 1..Len(calls) : SwapTimer(k)
    /\ UNCHANGED <<cacheVars, loadVars, enhVars, revealVars, streamVars, faultVars, chatVars, runVars, lateVars>>

SpecDiagram == InitDiag /\ [][NextDiag]_vars

\* The raw source of the diagram is on the page.
RawVisible(c, call) ==
    IF c = 2 THEN call.container = "errorPanel" \/ call.shown = "code"
    ELSE ~call.preHidden

\* C16: a call that reported an error did not leave the unrendered div in
\* its container and left the raw code block visible, and a syntax error is
\* reported once, before anything is rendered.
C16_NoMutationOnFailure ==
    \A k \in 1..Len(calls) :
        /\ calls[k].errors > 0 =>
              (calls[k].container # "div" /\ RawVisible(cbv, calls[k]))
        /\ (calls[k].code = "badSyntax" /\ calls[k].pc = "done") =>
              (calls[k].errors = 1 /\ calls[k].renders = 0)

\* C17: at most one script load is started and mermaid.initialize is called
\* at most once.
C17_LoadedAndInitialisedOnce ==
    scripts <= 1 /\ inits <= 1

\* C18: a click on the toggle, and the swap it schedules, leave the library,
\* the script loads, the initialisation and the call's validation and
\* rendering as they were; only the flag, the timers and the shown node
\* change.
C18_ToggleOnlySwaps ==
    [][\A k \in 1..Len(calls) :
          (/\ Len(calls') = Len(calls)
           /\ \/ calls'[k].clicks # calls[k].clicks
              \/ calls'[k].swaps # calls[k].swaps)
          => /\ UNCHANGED <<lib, initialized, scripts, inits>>
             /\ calls'[k] = [calls[k] EXCEPT !.isRendered = calls'[k].isRendered,
                                            !.shown = calls'[k].shown,
                                            !.swaps = calls'[k].swaps,
                                            !.clicks = calls'[k].clicks]]_vars

\* A rendered diagram was switched to the raw view and back, validated and
\* rendered once.
C18_Witness ==
    \E k \in 1..Len(calls) :
        /\ calls[k].clicks = 2
        /\ calls[k].swaps = <<>>
        /\ calls[k].shown = "diagram"
        /\ calls[k].successes = 1
        /\ calls[k].parses = 1
        /\ calls[k].renders = 1

NextSupersede ==
    \/ NextReveal
    \/ /\ NewConversation
       /\ UNCHANGED <<cacheVars, loadVars, enhVars, revealVars, streamVars,
                      faultVars, diagVars, runVars, lateVars>>

SpecSupersede == InitRevealOne /\ [][NextSupersede]_vars

\* C19: a run whose message was removed from the page has no frame callback
\* scheduled, no scroll listener registered and no callback still to come.
C19_SupersededRunsReleased ==
    \A r \in 1..Len(runs) :
        runs[r].surf \in detached =>
            /\ ~runs[r].frame
            /\ ~runs[r].listeners

InitRun ==
    /\ IdleCache
    /\ cbv \in {1, 2, 3}
    /\ blocks = <<>>
    /\ passes = 0
    /\ afterFirst = <<>>
    /\ IdleReveal
    /\ IdleFault
    /\ IdleDiagram
    /\ IdleChat
    /\ IdleLate
    /\ buttons = <<>>

NextRun ==
    /\ \/ AddRunButton
       \/ \E n \in 1..Len(buttons) : ClickRun(n)
       \/ \E n \in 1..Len(buttons), j \in 1..MaxRunClicks, o \in Outcomes :
             ExecutionEnds(n, j, o)
    /\ UNCHANGED <<cacheVars, loadVars, blocks, passes, afterFirst, revealVars,
                   streamVars, faultVars, diagVars, chatVars, lateVars>>

SpecRun == InitRun /\ [][NextRun]_vars

\* C20: a run button shows the spinner exactly while an execution started
\* from it is in flight, and is enabled when none is.
C20_BusyWhileExecuting ==
    \A n \in 1..Len(buttons) :
        /\ buttons[n].execs # <<>> => buttons[n].html = "spinner"
        /\ buttons[n].execs = <<>> =>
              (buttons[n].html = "play" /\ ~buttons[n].disabled)

\* The parts of the state the detector calls leave alone.
InitDetectSpec ==
    /\ InitDetect
    /\ IdleCache
    /\ IdleEnhance
    /\ IdleReveal
    /\ IdleFault
    /\ IdleDiagram
    /\ IdleChat
    /\ IdleRun
    /\ IdleParseFault
    /\ IdleScroll
    /\ IdleRetry
    /\ IdleTail

NextDetect ==
    /\ \/ CallIsSqlContent
       \/ CallIsMermaidContent
       \/ CallDetectLanguage
    /\ UNCHANGED <<cacheVars, loadVars, enhVars, revealVars, streamVars,
                   faultVars, diagVars, chatVars, runVars, pfVars, scrollVars,
                   retryVars, tailVars>>

SpecDetect == InitDetectSpec /\ [][NextDetect]_vars

\* Some line of text, trimmed and upper-cased, is one of the SQL keywords or
\* starts with one followed by white space.
SqlLine(text) ==
    \E n \in 1..Len(SplitLines(text)) :
        LET u == ToUpperCase(Trim(SplitLines(text)[n]))
        IN \E k \in 1..Len(sqlKeywords) :
              \/ u = sqlKeywords[k]
              \/ /\ StartsWith(u, sqlKeywords[k])
                 /\ Len(u) > Len(sqlKeywords[k])
                 /\ IsWs(u[Len(sqlKeywords[k]) + 1])

\* C21: isSqlContent answers true exactly when the hinted tag names SQL or
\* some line starts with an SQL keyword followed by white space, or is one.
C21_SqlDetectedExactly ==
    dres.fn = "isSqlContent" =>
        dres.val = Bool(Includes(ToLowerCase(dhint), <<"s", "q", "l">>)
                        \/ SqlLine(dtext))

\* Some line of text, trimmed and lower-cased, is one of the diagram
\* keywords or starts with one followed by a space or a colon.
DiagramLine(text) ==
    \E n \in 1..Len(SplitLines(text)) :
        LET u == ToLowerCase(Trim(SplitLines(text)[n]))
        IN \E k \in 1..Len(mermaidKeywords) :
              \/ u = mermaidKeywords[k]
              \/ StartsWith(u, mermaidKeywords[k] \o <<" ">>)
              \/ StartsWith(u, mermaidKeywords[k] \o <<":">>)

\* C22: the diagram test answers true exactly when some line starts with a
\* diagram keyword followed by a space or a colon, or is one.
C22_DiagramDetectedExactly ==
    dres.fn = "isMermaidContent" => dres.val = Bool(DiagramLine(dtext))

\* The detectors of detectLanguage in their order, with the tag of each.
Detectors(text) ==
    << [tag |-> "sql", hit |-> SqlLine(text)],
       [tag |-> "mermaid", hit |-> DiagramLine(text)],
       [tag |-> "json",
        hit |-> /\ \/ StartsWith(Trim(text), <<"{">>) /\ EndsWith(Trim(text), <<"}">>)
                   \/ StartsWith(Trim(text), <<"[">>) /\ EndsWith(Trim(text), <<"]">>)
                /\ JsonParses(Trim(text))],
       [tag |-> "python",
        hit |-> \/ Includes(text, <<"d", "e", "f", " ">>)
                \/ Includes(text, <<"i", "m", "p", "o", "r", "t", " ">>)
                \/ Includes(text, <<"f", "r", "o", "m", " ">>)],
       [tag |-> "javascript",
        hit |-> \/ Includes(text, <<"f", "u", "n", "c", "t", "i", "o", "n">>)
                \/ Includes(text, <<"=", ">">>)
                \/ Includes(text, <<"c", "o", "n", "s", "t", " ">>)] >>

\* C23: detectLanguage returns the tag of the first detector in the order
\* SQL, diagram, JSON, import/def style, function/arrow style that matches
\* the text, and none if no detector matches.
C23_EarliestDetectorWins ==
    dres.fn = "detectLanguage" =>
        LET ds == Detectors(dtext)
        IN IF \A k \in 1..Len(ds) : ~ds[k].hit THEN dres.val = "null"
           ELSE \E k \in 1..Len(ds) :
                   /\ ds[k].hit
                   /\ \A m \in 1..(k - 1) : ~ds[m].hit
                   /\ dres.val = ds[k].tag

InitStreamFault ==
    /\ InitParseFault
    /\ svc \in {1, 2}
    /\ load = "none"
    /\ InitService
    /\ InitLoad
    /\ IdleEnhance
    /\ IdleReveal
    /\ IdleFault
    /\ IdleDiagram
    /\ IdleChat
    /\ IdleRun
    /\ IdleDetect
    /\ IdleScroll
    /\ IdleRetry
    /\ IdleTail

NextStreamFault ==
    /\ AppendGenieStreamChunk
    /\ UNCHANGED <<loadVars, enhVars, revealVars, streamVars, faultVars,
                   diagVars, chatVars, runVars, detVars, scrollVars,
                   retryVars, tailVars>>

SpecStreamFault == InitStreamFault /\ [][NextStreamFault]_vars

\* C24: processPartialMarkdown never throws to appendGenieStreamChunk; when
\* the buffer does not parse, the surface shows its escaped text; and every
\* chunk delivered so far is in the buffer.
C24_ParseFailureContained ==
    /\ pf.threw = 0
    /\ (pf.handled > 0 /\ ~Parses(pf.raw)) =>
          pf.html = [kind |-> "escaped", src |-> Escape(pf.raw)]

TicksNeeded(text) ==
    IF Len(text) = 0 THEN 1
    ELSE (Len(text) + CHARS_PER_FRAME - 1) \div CHARS_PER_FRAME

-----------------------------------------------------------------------------
(* Scroll tracking of a reveal run *)

\* handleUserScroll of one run: auto-scroll is suspended and the 800 ms
\* timer is started anew.
HandleUserScroll(run) ==
    [run EXCEPT !.isUserScrolling = TRUE, !.scrollTimeout = TRUE]

\* The timer's callback: auto-scroll is allowed again only if the chat area
\* is within the threshold of its end at that moment.
ScrollTimeoutCallback(run, bottom) ==
    [run EXCEPT !.scrollTimeout = FALSE,
                !.isUserScrolling = IF bottom THEN FALSE ELSE @]

\* A wheel or touchmove event on the chat area's parent: every run whose
\* listeners are still attached handles it; the event leaves the area at
\* its end or away from it.
WheelOrTouchMove ==
    /\ runs # <<>>
    /\ runs' = [r \in 1..Len(runs) |->
                   IF runs[r].listeners THEN HandleUserScroll(runs[r]) ELSE runs[r]]
    /\ atBottom' \in BOOLEAN
    /\ UNCHANGED <<msgLimit, twv, mhv, surfaces, timers, nMsgs, cacheVars>>

\* 800 ms passed without a further wheel or touchmove event.
ScrollTimeout(r) ==
    /\ runs[r].scrollTimeout
    /\ runs' = [runs EXCEPT ![r] = ScrollTimeoutCallback(@, atBottom)]
    /\ UNCHANGED <<msgLimit, twv, mhv, surfaces, timers, nMsgs, cacheVars, atBottom>>

\* The chat area is scrolled with the keyboard or the scrollbar: no wheel
\* or touchmove event is dispatched, so no run's handler is called.
ScrollWithoutWheel ==
    /\ runs # <<>>
    /\ atBottom' = ~atBottom
    /\ UNCHANGED <<revealVars, cacheVars>>

NextScroll ==
    \/ /\ \/ \E t \in Texts : AddGenieResponse(t)
          \/ \E tm \in timers : ClearAfterDiagram(tm)
          \/ \E tm \in timers : WrapLater(tm)
          \/ \E r \in 1..Len(runs) : AnimateText(r)
          \/ WheelOrTouchMove
          \/ \E r \in 1..Len(runs) : ScrollTimeout(r)
          \/ ScrollWithoutWheel
       /\ UNCHANGED <<loadVars, enhVars, streamVars, faultVars, diagVars,
                      chatVars, runVars, detVars, pfVars, retryVars, tailVars>>
    \/ /\ \/ \E tm \in timers : StartTyping(tm)
          \/ \E tm \in timers : ImportThen(tm)
          \/ \E tm \in timers : AfterDiagram(tm)
          \/ \E r \in 1..Len(runs) : CancelRun(r)
       /\ UNCHANGED <<loadVars, enhVars, streamVars, extraVars>>

SpecScroll == InitRevealOne /\ [][NextScroll]_vars

\* While a run has auto-scroll suspended, its ticks leave an area that is
\* away from its end there (the completion callback aside), and the
\* suspension ends only when the timer fires with the area at its end.
ScrollSuspensionRespected ==
    [][\A r \in 1..Len(runs) :
          r <= Len(runs') =>
             /\ (runs[r].isUserScrolling /\ ~atBottom
                    /\ runs'[r].frameCounter # runs[r].frameCounter
                    /\ runs'[r].frame) => ~atBottom'
             /\ (runs[r].isUserScrolling /\ ~runs'[r].isUserScrolling) =>
                    (runs[r].scrollTimeout /\ ~runs'[r].scrollTimeout /\ atBottom)]_vars

\* C27: a run that has suspended auto-scroll resumes it once the consumer is
\* back at the end of the chat area: whenever the area is within the
\* threshold of its end and an unfinished run still has auto-scroll
\* suspended, the check that lifts the suspension is pending.
C27_AutoScrollResumesAtBottom ==
    \A r \in 1..Len(runs) :
        (runs[r].frame /\ runs[r].isUserScrolling /\ atBottom) => runs[r].scrollTimeout

\* C28: a partial render of a text below the threshold returns what the
\* full render returns, leaves the text in the full cache and adds nothing
\* to the partial cache; a partial render of a longer text is stored in the
\* partial cache and puts nothing into the full cache.  Here only partial
\* renders receive new texts, so every entry of the full cache was put
\* there by one of them.
C28_PartialRenderCacheUse ==
    load = "partial" =>
        /\ \A i \in 1..Len(cache) : Len(cache[i].key) < SHORT_LIMIT
        /\ \A i \in 1..Len(partialCache) : Len(partialCache[i].key) >= SHORT_LIMIT
        /\ (lastCall = "partial" /\ Len(lastKey) < SHORT_LIMIT) =>
              (Has(cache, lastKey) /\ ret = Get(cache, lastKey))
        /\ (lastCall = "partial" /\ Len(lastKey) >= SHORT_LIMIT) =>
              (Has(partialCache, lastKey) /\ ret = Get(partialCache, lastKey))

InitRetrySpec ==
    /\ InitRetry
    /\ IdleCache
    /\ IdleEnhance
    /\ IdleReveal
    /\ IdleFault
    /\ IdleDiagram
    /\ IdleChat
    /\ IdleRun
    /\ IdleDetect
    /\ IdleParseFault
    /\ IdleScroll
    /\ IdleTail

NextRetry ==
    /\ \/ CallFn
       \/ FnSettles
       \/ DelayElapsed
       \/ ThrowLastError
    /\ UNCHANGED <<cacheVars, loadVars, enhVars, revealVars, streamVars,
                   faultVars, diagVars, chatVars, runVars, detVars, pfVars,
                   scrollVars, tailVars>>

SpecRetry == InitRetrySpec /\ [][NextRetry]_vars

\* The attempts that failed with an error other than an authentication error
\* and were not the last one allowed.
Retried(rt) ==
    {k \in 1..Len(rt.attempts) :
        rt.attempts[k] \notin {"value", "AUTH"} /\ k < rt.maxRetries}

\* C29: fn is called at most maxRetries times and never again after a
\* success or an authentication error; the first success is returned; the
\* k-th wait lasts initialDelay * 2^(k-1), comes between attempts k and k+1
\* and none follows the last attempt allowed; an authentication error is
\* thrown at once, and after maxRetries failures the error of the last
\* attempt is thrown.
C29_RetryWithBackoff ==
    LET n == Len(retry.attempts)
        last == retry.attempts[n]
    IN /\ retry.calls <= retry.maxRetries
       /\ n <= retry.calls /\ retry.calls <= n + 1
       /\ \A k \in 1..(n - 1) : retry.attempts[k] \notin {"value", "AUTH"}
       /\ retry.calls = n + 1 <=> retry.pc = "pending"
       /\ Len(retry.waits) = Cardinality(Retried(retry))
       /\ \A k \in 1..Len(retry.waits) : retry.waits[k] = retry.initialDelay * 2^(k - 1)
       /\ retry.pc = "pending" => Len(retry.waits) = retry.calls - 1
       /\ retry.pc = "returned" <=> (n > 0 /\ last = "value")
       /\ retry.pc = "returned" => retry.result = [kind |-> "value", val |-> n]
       /\ (n > 0 /\ last = "AUTH") =>
             (retry.pc = "thrown" /\ retry.result.val = ErrorOf("AUTH", n))
       /\ (retry.pc = "thrown" /\ n > 0 /\ last # "AUTH") =>
             (n = retry.maxRetries /\ retry.result.val = ErrorOf(last, n))
       /\ (n = retry.maxRetries /\ n > 0 /\ last # "value") =>
             retry.pc \in {"throw", "thrown"}

\* Three attempts were allowed, all failed, two waits of 1000 and 2000 lay
\* between them and the third error was thrown.
C29_Witness ==
    /\ retry.maxRetries = 3
    /\ retry.initialDelay = 1000
    /\ retry.pc = "thrown"
    /\ retry.attempts = <<"NETWORK", "DATABASE", "NETWORK">>
    /\ retry.waits = <<1000, 2000>>
    /\ retry.result = [kind |-> "error", val |-> ErrorOf("NETWORK", 3)]

\* C30: a renderMermaid call never invokes both callbacks or one of them
\* twice, and a call that has nothing left to do (rendering settled, syntax
\* rejected, or its script failed to load) has invoked exactly one of them.
C30_ExactlyOneCallback ==
    \A k \in 1..Len(calls) :
        /\ calls[k].successes + calls[k].errors <= 1
        /\ calls[k].pc \in {"done", "failed"} =>
              calls[k].successes + calls[k].errors = 1

\* C31: once a surface has been enhanced, every diagram block of it has been
\* handed to the diagram renderer exactly once, however many passes ran and
\* whichever blocks share a parent node.
C31_EachDiagramRenderedOnce ==
    passes >= 1 =>
        \A i \in 1..Len(blocks) :
            blocks[i].kind = "mermaid" => blocks[i].diag = 1

\* C32: for a diagram block with a toggle, once no swap is pending the flag
\* isRendered is true exactly when the diagram container is the wrapper's
\* child, and a pending swap replaces the node that is the wrapper's child.
C32_FlagMatchesShownNode ==
    cbv = 2 =>
        \A k \in 1..Len(calls) :
            /\ calls[k].swaps = <<>> =>
                  (calls[k].isRendered <=> calls[k].shown = "diagram")
            /\ calls[k].swaps # <<>> => Head(calls[k].swaps) # calls[k].shown

\* C33: the two SQL classifiers agree: what the loaded classifier returned
\* for a code text and class name is what the other one returns for them.
C33_SqlClassifiersAgree ==
    dres.fn = "isSqlContent" =>
        dres.val = Bool(IsSqlContent(3 - detv, dtext, dhint))

\* What a run has revealed when it ends: the word loop closes every word,
\* the last one too, with a space.
Revealable(v, text) == IF v = 1 THEN text \o <<" ">> ELSE text

\* The statement of C34 as given: the trimmed revealed text is a prefix of
\* the input with its trailing whitespace removed.
C34_TrimmedIsPrefixOfRightTrimmed ==
    \A r \in 1..Len(runs) :
        /\ StartsWith(Revealable(twv, runs[r].text), runs[r].cur)
        /\ StartsWith(TrimEnd(runs[r].text), Trim(runs[r].cur))
        /\ Completed(runs[r]) => runs[r].cur = Revealable(twv, runs[r].text)

\* C34: the revealed text of a run only grows, is always a prefix of the
\* input (in the word loop: of the input followed by one space), its trimmed
\* form, which is what the partial render receives, is a prefix of the input
\* trimmed at both ends, and a completed run has revealed the whole input.
C34_RevealedIsPrefix ==
    /\ [][\A r \in 1..Len(runs) :
             r <= Len(runs') => StartsWith(runs'[r].cur, runs[r].cur)]_vars
    /\ [](\A r \in 1..Len(runs) :
             /\ StartsWith(Revealable(twv, runs[r].text), runs[r].cur)
             /\ StartsWith(Trim(runs[r].text), Trim(runs[r].cur))
             /\ Completed(runs[r]) => runs[r].cur = Revealable(twv, runs[r].text))

\* A run over a text that starts with a space has revealed all of it.
C34_Witness ==
    \E r \in 1..Len(runs) :
        /\ runs[r].text = TSpaced
        /\ Completed(runs[r])
        /\ runs[r].cur = Revealable(twv, TSpaced)
        /\ Trim(runs[r].cur) = <<"a", " ", "b">>

InitCleanup ==
    /\ InitMemory
    /\ svc \in {1, 2}
    /\ load \in {"full", "partial"}
    /\ InitService
    /\ InitLoad
    /\ IdleEnhance
    /\ IdleReveal
    /\ IdleFault
    /\ IdleDiagram
    /\ IdleChat
    /\ IdleRun
    /\ IdleDetect
    /\ IdleParseFault
    /\ IdleScroll
    /\ IdleRetry
    /\ IdleTable

NextCleanup ==
    /\ UNCHANGED tableVars
    /\ \/ nextId < MaxTexts /\ RenderFull /\ UNCHANGED mmVars
       \/ nextId < MaxTexts /\ RenderPartial /\ UNCHANGED mmVars
       \/ StartCacheCleanup
       \/ StopCacheCleanup
       \/ \E id \in mm.active : IntervalFires(id)
    /\ UNCHANGED <<enhVars, revealVars, streamVars, faultVars, diagVars,
                   chatVars, runVars, detVars, pfVars, scrollVars, retryVars>>

\* The cleanup timer beside a caller that renders a few texts.
SpecCleanup == InitCleanup /\ [][NextCleanup]_vars

\* C35: at most one cleanup interval is active, namely the one
\* cacheCleanupInterval names; after a stop none is active, so the caches
\* are cleared by an interval only between a start and the next stop; and
\* every firing leaves both caches empty.
C35_OneCleanupInterval ==
    /\ [](/\ Cardinality(mm.active) <= 1
          /\ mm.cacheCleanupInterval = NoInterval => mm.active = {}
          /\ mm.cacheCleanupInterval # NoInterval =>
                mm.active = {mm.cacheCleanupInterval})
    /\ [][mm'.fired # mm.fired =>
             /\ mm.cacheCleanupInterval # NoInterval
             /\ cache' = <<>>
             /\ partialCache' = <<>>]_vars

\* The cleanup was started twice and stopped, and the one interval that was
\* active in between fired on caches that held entries.
C35_Witness ==
    /\ mm.starts >= 2
    /\ mm.fired >= 1
    /\ mm.cacheCleanupInterval = NoInterval
    /\ mm.active = {}
    /\ lastCall = "clear"
    /\ cache = <<>>
    /\ partialCache = <<>>
    /\ nextId > 0

InitTableSpec ==
    /\ InitTable
    /\ IdleCache
    /\ IdleEnhance
    /\ IdleReveal
    /\ IdleFault
    /\ IdleDiagram
    /\ IdleChat
    /\ IdleRun
    /\ IdleDetect
    /\ IdleParseFault
    /\ IdleScroll
    /\ IdleRetry
    /\ IdleMemory

NextTable ==
    /\ \/ \E column \in 1..NumColumns : HeaderClick(column)
       \/ \E value \in SearchValues : SearchInput(value)
    /\ UNCHANGED <<cacheVars, loadVars, enhVars, revealVars, streamVars,
                   faultVars, diagVars, chatVars, runVars, detVars, pfVars,
                   scrollVars, retryVars, mmVars>>

SpecTable == InitTableSpec /\ [][NextTable]_vars

\* C36: a click on a header moves that column's direction one step along
\* none -> asc -> desc -> none and sets every other header to none, so at
\* most one column has a direction; and when the search field is emptied
\* while a sort is active, the table shows all rows sorted by the column
\* and in the direction that were active before.
C36_SortCycleAndFilterClear ==
    /\ Cardinality({c \in 1..NumColumns : tbl.dirs[c] # "none"}) <= 1
    /\ tbl.last.event = "click" =>
          \A c \in 1..NumColumns :
              tbl.dirs[c] = IF c = tbl.last.column
                            THEN NextDirection(tbl.last.dirs[c]) ELSE "none"
    /\ (tbl.last.event = "clear" /\ tbl.last.sortState.direction # "none") =>
          /\ tbl.sortState = tbl.last.sortState
          /\ tbl.dirs[tbl.last.sortState.column] = tbl.last.sortState.direction
          /\ tbl.body = SortRows(tbl.originalRows, tbl.last.sortState.column,
                                 tbl.last.sortState.direction)

====
